---- MODULE Spec2Model ----
(***************************************************************************)
(* Inventory ledger, reports and service tickets of the computer-service   *)
(* back office (server/src/handlers).  A handler is a sequence of awaited  *)
(* database statements; the stock handlers are modelled one statement per  *)
(* action, so that invocations interleave exactly where the code awaits,   *)
(* and the single-statement handlers one handler per action.  Money is     *)
(* held in cents (the numeric(12,2) columns).                              *)
(***************************************************************************)
EXTENDS Integers, Sequences, FiniteSets, TLC

\* ------------------------------------------------------------------ bounds
MaxStock == 2           \* largest stock_quantity a product starts with
MaxCalls == 2           \* handler invocations of a sequential run
MaxConc == 2            \* handler invocations in flight at the same time
MaxTime == 2            \* last tick of the clock
TicksPerDay == 2        \* clock ticks in a calendar day
MaxTransactions == 2    \* rows createTransaction may add

\* --------------------------------------------------------------- constants
DefaultUserId == 1      \* created_by written when no caller is known
DefaultMinimumStock == 0 \* column default of products.minimum_stock

VARIABLES
  products,             \* productsTable: id -> row
  stock_movements,      \* stockMovementsTable: sequence of rows, id = index
  transaction_items,    \* transactionItemsTable: sequence of rows, id = index
  transactions,         \* transactionsTable: sequence of rows, id = index
  services,             \* servicesTable: sequence of rows, id = index
  customers,            \* customersTable: id -> row
  users,                \* usersTable: id -> row
  calls,                \* handler invocations: slot -> locals and outcome
  budget,               \* invocations that may still be started
  now,                  \* the clock read by new Date() and defaultNow()
  created_stock         \* history: stock_quantity each product was inserted with

vars == <<products, stock_movements, transaction_items, transactions, services,
          customers, users, calls, budget, now, created_stock>>

\* SQL NULL and a JavaScript undefined property; a present value v is <<v>>
NULL == <<>>
Undefined == <<>>
Some(v) == <<v>>

ProductIds == {1, 2}
\* ids a caller may name: the existing rows and one id that no row has
ProductIdInputs == ProductIds \cup {3}
TransactionIdInputs == {1, 2}
Quantities == {1, 2}
MovementTypes == {"in", "out"}
MinimumStocks == {0, 1}
Prices == {250, 1299}
UnitPrices == {1299}

NoError == [kind |-> "none", id |-> 0, available |-> 0, requested |-> 0]
NotFound(what, id) ==
  [kind |-> what, id |-> id, available |-> 0, requested |-> 0]
InsufficientStock(available, requested) ==
  [kind |-> "Insufficient stock", id |-> 0,
   available |-> available, requested |-> requested]

\* before: history, the tables as the invocation found them (status: the
\* status of the service an updateService is about to change)
NoBefore == [stock |-> 0, movements |-> 0, items |-> 0, status |-> "none"]
Before(product_id) ==
  [stock |-> IF product_id \in DOMAIN products
             THEN products[product_id].stock_quantity ELSE 0,
   movements |-> Len(stock_movements),
   items |-> Len(transaction_items),
   status |-> "none"]

IdleCall == [op |-> "none", pc |-> "idle", input |-> <<>>, before |-> NoBefore,
             read |-> 0, row |-> 0, error |-> NoError, result |-> <<>>]

InFlight(c) == calls[c].pc \notin {"idle", "done", "failed"}
NoCallInProgress == \A c \in DOMAIN calls : ~InFlight(c)
\* a new invocation takes the lowest slot that holds no running invocation
FreeSlot(c) ==
  /\ ~InFlight(c)
  /\ \A d \in DOMAIN calls : d < c => InFlight(d)
  /\ budget > 0

ProductExists(id) == id \in DOMAIN products
TransactionExists(id) == id \in 1..Len(transactions)

\* ------------------------------------------------------ createStockMovement
StockMovementInputs ==
  [product_id : ProductIdInputs, type : MovementTypes, quantity : Quantities]

\* select the product; throw when no row has the id
CreateStockMovementSelect(c, input) ==
  /\ FreeSlot(c)
  /\ budget' = budget - 1
  /\ calls' = [calls EXCEPT ![c] =
       [IdleCall EXCEPT
          !.op = "createStockMovement",
          !.input = input,
          !.before = Before(input.product_id),
          !.pc = IF ProductExists(input.product_id)
                 THEN "sm_insert" ELSE "failed",
          !.error = IF ProductExists(input.product_id)
                    THEN NoError
                    ELSE NotFound("Product not found", input.product_id)]]
  /\ UNCHANGED <<products, stock_movements, transaction_items, transactions,
                 services, customers, now, created_stock,
                 users>>

\* an insert that adds the quantity to an earlier row of the same product and
\* type when there is one
CreateStockMovementUpsert(c) ==
  /\ calls[c].pc = "sm_insert"
  /\ LET input == calls[c].input
         same == { i \in DOMAIN stock_movements :
                     /\ stock_movements[i].product_id = input.product_id
                     /\ stock_movements[i].type = input.type }
         row == IF same = {} THEN Len(stock_movements) + 1
                ELSE CHOOSE i \in same : TRUE
     IN /\ stock_movements' =
             IF same = {}
             THEN Append(stock_movements,
                    [product_id |-> input.product_id, type |-> input.type,
                     quantity |-> input.quantity, created_at |-> now,
                     created_by |-> DefaultUserId])
             ELSE [stock_movements EXCEPT ![row].quantity = @ + input.quantity]
        /\ calls' = [calls EXCEPT ![c].pc = "sm_update", ![c].row = row]
  /\ UNCHANGED <<products, transaction_items, transactions, services,
                 customers, budget, now, created_stock, users>>

\* insert the movement row
CreateStockMovementInsert(c) ==
  /\ calls[c].pc = "sm_insert"
  /\ stock_movements' = Append(stock_movements,
       [product_id |-> calls[c].input.product_id,
        type |-> calls[c].input.type,
        quantity |-> calls[c].input.quantity,
        created_at |-> now,
        created_by |-> DefaultUserId])
  /\ calls' = [calls EXCEPT ![c].pc = "sm_update",
                            ![c].row = Len(stock_movements) + 1]
  /\ UNCHANGED <<products, transaction_items, transactions, services,
                 customers, budget, now, created_stock,
                 users>>

quantityChangeIgnoringType(input) == input.quantity

quantityChange(input) ==
  IF input.type = "in" THEN input.quantity ELSE -input.quantity

\* UPDATE products SET stock_quantity = <the stock the existence check saw>
\*   + quantityChange
CreateStockMovementUpdateFromRead(c) ==
  /\ calls[c].pc = "sm_update"
  /\ LET id == calls[c].input.product_id IN
     products' = [products EXCEPT
       ![id].stock_quantity =
          calls[c].before.stock + quantityChange(calls[c].input),
       ![id].updated_at = now]
  /\ calls' = [calls EXCEPT ![c].pc = "done"]
  /\ UNCHANGED <<stock_movements, transaction_items, transactions, services,
                 customers, budget, now, created_stock, users>>

\* UPDATE products SET stock_quantity = stock_quantity + quantityChange
CreateStockMovementUpdate(c) ==
  /\ calls[c].pc = "sm_update"
  /\ LET id == calls[c].input.product_id IN
     products' = [products EXCEPT
       ![id].stock_quantity = @ + quantityChange(calls[c].input),
       ![id].updated_at = now]
  /\ calls' = [calls EXCEPT ![c].pc = "done"]
  /\ UNCHANGED <<stock_movements, transaction_items, transactions, services,
                 customers, budget, now, created_stock,
                 users>>

\* ---------------------------------------------------- createTransactionItem
TransactionItemInputs ==
  [transaction_id : TransactionIdInputs, product_id : ProductIdInputs,
   quantity : Quantities, unit_price : UnitPrices]

\* select the transaction; throw when no row has the id
CreateTransactionItemSelectTransaction(c, input) ==
  /\ FreeSlot(c)
  /\ budget' = budget - 1
  /\ calls' = [calls EXCEPT ![c] =
       [IdleCall EXCEPT
          !.op = "createTransactionItem",
          !.input = input,
          !.before = Before(input.product_id),
          !.pc = IF TransactionExists(input.transaction_id)
                 THEN "ti_select_product" ELSE "failed",
          !.error = IF TransactionExists(input.transaction_id)
                    THEN NoError
                    ELSE NotFound("Transaction not found",
                                  input.transaction_id)]]
  /\ UNCHANGED <<products, stock_movements, transaction_items, transactions,
                 services, customers, now, created_stock,
                 users>>

stockBelowOrEqualQuantity(stock_quantity, quantity) ==
  stock_quantity <= quantity

\* a check that refuses only while some stock is left
insufficientPositiveStock(stock_quantity, quantity) ==
  stock_quantity > 0 /\ stock_quantity < quantity

\* product[0].stock_quantity < input.quantity
insufficientStock(stock_quantity, quantity) == stock_quantity < quantity

\* select the product, keep its row, check the stock it shows
CreateTransactionItemSelectProduct(c) ==
  /\ calls[c].pc = "ti_select_product"
  /\ LET input == calls[c].input IN
     calls' = [calls EXCEPT ![c] =
       IF ~ProductExists(input.product_id)
       THEN [@ EXCEPT !.pc = "failed",
                      !.error = NotFound("Product not found",
                                         input.product_id)]
       ELSE IF insufficientStock(products[input.product_id].stock_quantity,
                                 input.quantity)
       THEN [@ EXCEPT !.pc = "failed",
                      !.read = products[input.product_id].stock_quantity,
                      !.error = InsufficientStock(
                                  products[input.product_id].stock_quantity,
                                  input.quantity)]
       ELSE [@ EXCEPT !.pc = "ti_insert",
                      !.read = products[input.product_id].stock_quantity]]
  /\ UNCHANGED <<products, stock_movements, transaction_items, transactions,
                 services, customers, budget, now, created_stock,
                 users>>

\* insert the item row and add its total_price to the parent transaction
CreateTransactionItemInsertAndBill(c) ==
  /\ calls[c].pc = "ti_insert"
  /\ LET input == calls[c].input IN
     /\ transaction_items' = Append(transaction_items,
          [transaction_id |-> input.transaction_id,
           product_id |-> input.product_id,
           quantity |-> input.quantity,
           unit_price |-> input.unit_price,
           total_price |-> input.quantity * input.unit_price])
     /\ transactions' = [transactions EXCEPT
          ![input.transaction_id].total_amount =
             @ + input.quantity * input.unit_price]
  /\ calls' = [calls EXCEPT ![c].pc = "ti_update",
                            ![c].row = Len(transaction_items) + 1]
  /\ UNCHANGED <<products, stock_movements, services, customers,
                 budget, now, created_stock, users>>

\* insert the item row
CreateTransactionItemInsert(c) ==
  /\ calls[c].pc = "ti_insert"
  /\ LET input == calls[c].input IN
     transaction_items' = Append(transaction_items,
       [transaction_id |-> input.transaction_id,
        product_id |-> input.product_id,
        quantity |-> input.quantity,
        unit_price |-> input.unit_price,
        total_price |-> input.quantity * input.unit_price])
  /\ calls' = [calls EXCEPT ![c].pc = "ti_update",
                            ![c].row = Len(transaction_items) + 1]
  /\ UNCHANGED <<products, stock_movements, transactions, services, customers,
                 budget, now, created_stock,
                 users>>

soldOne(read, quantity) == read - 1

\* product[0].stock_quantity - input.quantity
remainingStock(read, quantity) == read - quantity

\* UPDATE ... SET stock_quantity = stock_quantity - quantity
\*   WHERE stock_quantity >= quantity, throwing when no row was updated
CreateTransactionItemConditionalUpdate(c) ==
  /\ calls[c].pc = "ti_update"
  /\ LET id == calls[c].input.product_id
         quantity == calls[c].input.quantity
     IN IF products[id].stock_quantity >= quantity
        THEN /\ products' = [products EXCEPT
                  ![id].stock_quantity = @ - quantity,
                  ![id].updated_at = now]
             /\ calls' = [calls EXCEPT ![c].pc = "done"]
        ELSE /\ products' = products
             /\ calls' = [calls EXCEPT
                  ![c].pc = "failed",
                  ![c].error = InsufficientStock(products[id].stock_quantity,
                                                 quantity)]
  /\ UNCHANGED <<stock_movements, transaction_items, transactions, services,
                 customers, budget, now, created_stock,
                 users>>

\* UPDATE products SET stock_quantity = stock_quantity - quantity
CreateTransactionItemDecrement(c) ==
  /\ calls[c].pc = "ti_update"
  /\ LET id == calls[c].input.product_id IN
     products' = [products EXCEPT
       ![id].stock_quantity = @ - calls[c].input.quantity,
       ![id].updated_at = now]
  /\ calls' = [calls EXCEPT ![c].pc = "done"]
  /\ UNCHANGED <<stock_movements, transaction_items, transactions, services,
                 customers, budget, now, created_stock, users>>

\* UPDATE products SET stock_quantity = <the stock read earlier> - quantity
CreateTransactionItemUpdate(c) ==
  /\ calls[c].pc = "ti_update"
  /\ LET id == calls[c].input.product_id IN
     products' = [products EXCEPT
       ![id].stock_quantity = remainingStock(calls[c].read,
                                             calls[c].input.quantity),
       ![id].updated_at = now]
  /\ calls' = [calls EXCEPT ![c].pc = "done"]
  /\ UNCHANGED <<stock_movements, transaction_items, transactions, services,
                 customers, budget, now, created_stock,
                 users>>

\* -------------------------------------------------------- getLowStockProducts
stockAtOrBelowMinimum(row) == row.stock_quantity <= row.minimum_stock

stockBelowOne(row) == row.stock_quantity < 1

\* lt(productsTable.stock_quantity, productsTable.minimum_stock)
stockBelowMinimum(row) == row.stock_quantity < row.minimum_stock

\* the rows the query returns, each with its id
getLowStockProducts ==
  { [id |-> id, row |-> products[id]] :
      id \in { p \in DOMAIN products : stockBelowMinimum(products[p]) } }

GetLowStockProducts(c) ==
  /\ ~InFlight(c)
  /\ calls' = [calls EXCEPT ![c] =
       [IdleCall EXCEPT !.op = "getLowStockProducts", !.pc = "done",
                        !.result = getLowStockProducts]]
  /\ UNCHANGED <<products, stock_movements, transaction_items, transactions,
                 services, customers, budget, now, created_stock,
                 users>>

\* ------------------------------------------------------------- getStockReport
RECURSIVE SumQuantity(_, _)
SumQuantity(rows, n) ==
  IF n = 0 THEN 0 ELSE SumQuantity(rows, n - 1) + rows[n].quantity

sumOfTypeOnly(product_id, type) ==
  LET rows == SelectSeq(stock_movements, LAMBDA m : m.type = type)
  IN IF rows = <<>> THEN NULL ELSE Some(SumQuantity(rows, Len(rows)))

\* SELECT sum(quantity) WHERE product_id = .. AND type = ..: NULL over no row
sumOfMovements(product_id, type) ==
  LET rows == SelectSeq(stock_movements,
                        LAMBDA m : m.product_id = product_id /\ m.type = type)
  IN IF rows = <<>> THEN NULL ELSE Some(SumQuantity(rows, Len(rows)))

\* total ? parseInt(total) : 0
totalOrZero(total) == IF total = NULL THEN 0 ELSE total[1]

stockReportRow(id) ==
  LET product == products[id]
      stockIn == totalOrZero(sumOfMovements(id, "in"))
      stockOut == totalOrZero(sumOfMovements(id, "out"))
      currentStock == product.stock_quantity
  IN [product_id |-> id,
      current_stock |-> currentStock,
      minimum_stock |-> product.minimum_stock,
      stock_in |-> stockIn,
      stock_out |-> stockOut,
      stock_value |-> currentStock * product.price,
      is_low_stock |-> currentStock <= product.minimum_stock]

\* the rows of the products select, in id order
RECURSIVE productsInOrder(_)
productsInOrder(ids) ==
  IF ids = {} THEN <<>>
  ELSE LET last == CHOOSE p \in ids : \A q \in ids : q <= p
       IN Append(productsInOrder(ids \ {last}), last)

\* one row pushed per selected product
getStockReport ==
  LET selected == productsInOrder(DOMAIN products)
  IN [k \in 1..Len(selected) |-> stockReportRow(selected[k])]

GetStockReport(c) ==
  /\ ~InFlight(c)
  /\ calls' = [calls EXCEPT ![c] =
       [IdleCall EXCEPT !.op = "getStockReport", !.pc = "done",
                        !.result = getStockReport]]
  /\ UNCHANGED <<products, stock_movements, transaction_items, transactions,
                 services, customers, budget, now, created_stock,
                 users>>

\* ------------------------------------------------------------ specifications
SomeTransaction ==
  [customer_id |-> 1, type |-> "sale", service_id |-> NULL,
   total_amount |-> 1299, paid_amount |-> 1299, created_at |-> 0,
   created_by |-> DefaultUserId]

\* a customer as inserted: only the name is required
SomeCustomer ==
  [name |-> "Budi", phone |-> NULL, email |-> NULL, address |-> NULL,
   updated_at |-> 0]

\* an administrator and a technician
SomeUsers ==
  [id \in {1, 2} |->
     [role |-> IF id = 1 THEN "admin" ELSE "technician", is_active |-> TRUE]]

ProductRow(stock_quantity, minimum_stock, price) ==
  [name |-> "RAM 8GB", type |-> "sparepart",
   stock_quantity |-> stock_quantity, minimum_stock |-> minimum_stock,
   price |-> price, updated_at |-> 0]

\* the store every ledger run starts from: the products, one customer with an
\* open transaction, nothing recorded yet
LedgerStore(slots, invocations) ==
  /\ created_stock = [p \in ProductIds |-> products[p].stock_quantity]
  /\ stock_movements = <<>>
  /\ transaction_items = <<>>
  /\ transactions = <<SomeTransaction>>
  /\ services = <<>>
  /\ customers = [id \in {1} |-> SomeCustomer]
  /\ users = SomeUsers
  /\ calls = [c \in 1..slots |-> IdleCall]
  /\ budget = invocations
  /\ now = 0

\* products with any starting stock; one invocation at a time
Init ==
  /\ products \in [ProductIds ->
       { ProductRow(s, DefaultMinimumStock, 1299) : s \in 0..MaxStock }]
  /\ LedgerStore(1, MaxCalls)

Next ==
  \/ \E c \in DOMAIN calls :
       \E input \in StockMovementInputs : CreateStockMovementSelect(c, input)
  \/ \E c \in DOMAIN calls : CreateStockMovementInsert(c)
  \/ \E c \in DOMAIN calls : CreateStockMovementUpdate(c)
  \/ \E c \in DOMAIN calls :
       \E input \in TransactionItemInputs :
         CreateTransactionItemSelectTransaction(c, input)
  \/ \E c \in DOMAIN calls : CreateTransactionItemSelectProduct(c)
  \/ \E c \in DOMAIN calls : CreateTransactionItemInsert(c)
  \/ \E c \in DOMAIN calls : CreateTransactionItemUpdate(c)

\* sequential runs of the two stock handlers
Spec == Init /\ [][Next]_vars

\* the same handlers with MaxConc invocations in flight
InitConc ==
  /\ products \in [ProductIds ->
       { ProductRow(s, DefaultMinimumStock, 1299) : s \in 0..MaxStock }]
  /\ LedgerStore(MaxConc, MaxConc)

\* the product every concurrent invocation names
ContendedProductIds == {1}

NextConc ==
  \/ \E c \in DOMAIN calls :
       \E input \in [product_id : ContendedProductIds, type : MovementTypes,
                     quantity : Quantities] :
         CreateStockMovementSelect(c, input)
  \/ \E c \in DOMAIN calls : CreateStockMovementInsert(c)
  \/ \E c \in DOMAIN calls : CreateStockMovementUpdate(c)
  \/ \E c \in DOMAIN calls :
       \E input \in [transaction_id : {1}, product_id : ContendedProductIds,
                     quantity : Quantities, unit_price : UnitPrices] :
         CreateTransactionItemSelectTransaction(c, input)
  \/ \E c \in DOMAIN calls : CreateTransactionItemSelectProduct(c)
  \/ \E c \in DOMAIN calls : CreateTransactionItemInsert(c)
  \/ \E c \in DOMAIN calls : CreateTransactionItemUpdate(c)

SpecConc == InitConc /\ [][NextConc]_vars

\* products with any stock, minimum and price; movements and the two reports
InitReport ==
  /\ products \in [ProductIds ->
       { ProductRow(s, m, p) :
           s \in 0..MaxStock, m \in MinimumStocks, p \in Prices }]
  /\ LedgerStore(1, MaxCalls)

NextReport ==
  \/ \E c \in DOMAIN calls :
       \E input \in StockMovementInputs : CreateStockMovementSelect(c, input)
  \/ \E c \in DOMAIN calls : CreateStockMovementInsert(c)
  \/ \E c \in DOMAIN calls : CreateStockMovementUpdate(c)
  \/ \E c \in DOMAIN calls : GetLowStockProducts(c)
  \/ \E c \in DOMAIN calls : GetStockReport(c)

SpecReport == InitReport /\ [][NextReport]_vars

\* ---------------------------------------------------------------- the clock
Tick ==
  /\ now < MaxTime
  /\ now' = now + 1
  /\ UNCHANGED <<products, stock_movements, transaction_items, transactions,
                 services, customers, calls, budget, created_stock,
                 users>>

\* ----------------------------------------------------------- createTransaction
CustomerIdInputs == {1, 2}
ServiceIdInputs == {1, 2}
TransactionTypes == {"sale", "service"}
\* total_amount (positive) and paid_amount (non-negative) of an input
Amounts == { <<1000, 1000>>, <<2550, 0>> }
\* ctx.user.id: no caller, or the caller's id
Callers == { Undefined, Some(2) }

\* service_id: null, the id of the first service, or 0, which no service has
CreateTransactionInputs ==
  [customer_id : CustomerIdInputs, type : TransactionTypes,
   service_id : { NULL, Some(0), Some(1) }, amounts : Amounts,
   ctx_user : Callers]

\* a nullable number used as a condition: null and 0 are falsy
truthy(number) == number # NULL /\ number[1] # 0

CustomerExists(id) == id \in DOMAIN customers
ServiceExists(id) == id \in 1..Len(services)

\* ctx?.user?.id || 1
userId(ctx_user) == IF truthy(ctx_user) THEN ctx_user[1] ELSE DefaultUserId

\* the handler: customer check, service check when service_id is truthy,
\* insert
CreateTransaction(c, input) ==
  /\ ~InFlight(c)
  /\ Len(transactions) < MaxTransactions
  /\ IF ~CustomerExists(input.customer_id)
     THEN /\ calls' = [calls EXCEPT ![c] =
               [IdleCall EXCEPT
                  !.op = "createTransaction", !.pc = "failed",
                  !.input = input,
                  !.error = NotFound("Customer not found",
                                     input.customer_id)]]
          /\ UNCHANGED transactions
     ELSE IF truthy(input.service_id) /\ ~ServiceExists(input.service_id[1])
     THEN /\ calls' = [calls EXCEPT ![c] =
               [IdleCall EXCEPT
                  !.op = "createTransaction", !.pc = "failed",
                  !.input = input,
                  !.error = NotFound("Service not found",
                                     input.service_id[1])]]
          /\ UNCHANGED transactions
     ELSE /\ transactions' = Append(transactions,
               [customer_id |-> input.customer_id,
                type |-> input.type,
                service_id |-> input.service_id,
                total_amount |-> input.amounts[1],
                paid_amount |-> input.amounts[2],
                created_at |-> now,
                created_by |-> userId(input.ctx_user)])
          /\ calls' = [calls EXCEPT ![c] =
               [IdleCall EXCEPT
                  !.op = "createTransaction", !.pc = "done",
                  !.input = input, !.row = Len(transactions) + 1]]
  /\ UNCHANGED <<products, stock_movements, transaction_items, services,
                 customers, budget, now, created_stock,
                 users>>

\* ---------------------------------------------------------- getFinancialReport
\* the calendar days a caller may name as start_date and end_date
Days == 0..((MaxTime \div TicksPerDay) + 1)
FinancialReportInputs ==
  [period : {"daily"}, start_date : Days, end_date : Days]

\* new Date('YYYY-MM-DD'): the first instant of that day
parseDate(day) == day * TicksPerDay

createdBeforeEnd(created_at, startDate, endDate) ==
  created_at >= startDate /\ created_at < endDate

\* gte(created_at, startDate) and lte(created_at, endDate)
createdInRange(created_at, startDate, endDate) ==
  created_at >= startDate /\ created_at <= endDate

RECURSIVE SumTotalAmount(_, _)
SumTotalAmount(rows, n) ==
  IF n = 0 THEN 0 ELSE SumTotalAmount(rows, n - 1) + rows[n].total_amount

\* sum(total_amount): NULL over no row
sumOfTotalAmount(rows) ==
  IF rows = <<>> THEN NULL ELSE Some(SumTotalAmount(rows, Len(rows)))

\* one row per type that has a matching transaction: GROUP BY type
typeResults(rows) ==
  { [type |-> t,
     total_amount |->
       sumOfTotalAmount(SelectSeq(rows, LAMBDA r : r.type = t)),
     transaction_count |-> Len(SelectSeq(rows, LAMBDA r : r.type = t))] :
      t \in { rows[i].type : i \in 1..Len(rows) } }

\* amount = total_amount ? parseFloat(total_amount) : 0, kept for the type
revenueOfType(results, type) ==
  IF \E r \in results : r.type = type
  THEN LET r == CHOOSE r \in results : r.type = type
       IN IF r.total_amount = NULL THEN 0 ELSE r.total_amount[1]
  ELSE 0

getFinancialReport(input) ==
  LET startDate == parseDate(input.start_date)
      endDate == parseDate(input.end_date)
      matching == SelectSeq(transactions,
                    LAMBDA r : createdInRange(r.created_at, startDate, endDate))
      results == typeResults(matching)
      overall == [total_revenue |-> sumOfTotalAmount(matching),
                  total_count |-> Len(matching)]
  IN [period |-> input.period,
      total_revenue |-> IF overall.total_revenue = NULL
                        THEN 0 ELSE overall.total_revenue[1],
      service_revenue |-> revenueOfType(results, "service"),
      sales_revenue |-> revenueOfType(results, "sale"),
      total_transactions |-> overall.total_count,
      period_start |-> startDate,
      period_end |-> endDate]

GetFinancialReport(c, input) ==
  /\ ~InFlight(c)
  /\ calls' = [calls EXCEPT ![c] =
       [IdleCall EXCEPT !.op = "getFinancialReport", !.pc = "done",
                        !.input = input,
                        !.result = getFinancialReport(input)]]
  /\ UNCHANGED <<products, stock_movements, transaction_items, transactions,
                 services, customers, budget, now, created_stock,
                 users>>

\* ---------------------------------------------------------------- createService
\* services a run may hold
ServiceIds == {1}
EstimatedCosts == { NULL, Some(15000) }
CreateServiceInputs ==
  [customer_id : CustomerIdInputs, estimated_cost : EstimatedCosts]

\* a ticket that starts assigned and in progress
NewServiceInProgress(input) ==
  [customer_id |-> input.customer_id,
   estimated_cost |-> input.estimated_cost,
   diagnosis |-> NULL,
   repair_actions |-> NULL,
   status |-> "in_progress",
   actual_cost |-> NULL,
   technician_id |-> Some(DefaultUserId),
   created_at |-> now,
   updated_at |-> now,
   completed_at |-> NULL]

\* a ticket that carries a completion instant from the start
NewServiceStamped(input) ==
  [customer_id |-> input.customer_id,
   estimated_cost |-> input.estimated_cost,
   diagnosis |-> NULL,
   repair_actions |-> NULL,
   status |-> "pending",
   actual_cost |-> NULL,
   technician_id |-> NULL,
   created_at |-> now,
   updated_at |-> now,
   completed_at |-> Some(now)]

\* the row inserted for an input: the other columns take their defaults
\* (the device and problem texts, which no handler modelled here reads or
\* writes again, are not carried)
NewService(input) ==
  [customer_id |-> input.customer_id,
   estimated_cost |-> input.estimated_cost,
   diagnosis |-> NULL,
   repair_actions |-> NULL,
   status |-> "pending",
   actual_cost |-> NULL,
   technician_id |-> NULL,
   created_at |-> now,
   updated_at |-> now,
   completed_at |-> NULL]

CreateService(c, input) ==
  /\ ~InFlight(c)
  /\ Len(services) < Cardinality(ServiceIds)
  /\ IF ~CustomerExists(input.customer_id)
     THEN /\ calls' = [calls EXCEPT ![c] =
               [IdleCall EXCEPT
                  !.op = "createService", !.pc = "failed", !.input = input,
                  !.error = NotFound("Customer not found",
                                     input.customer_id)]]
          /\ UNCHANGED services
     ELSE /\ services' = Append(services, NewService(input))
          /\ calls' = [calls EXCEPT ![c] =
               [IdleCall EXCEPT
                  !.op = "createService", !.pc = "done", !.input = input,
                  !.row = Len(services) + 1]]
  /\ UNCHANGED <<products, stock_movements, transaction_items, transactions,
                 customers, budget, now, created_stock,
                 users>>

\* ---------------------------------------------------------------- updateService
ServiceStatuses == {"pending", "in_progress", "completed", "cancelled"}
AllUpdateServiceInputs ==
  [id : ServiceIdInputs,
   diagnosis : { Undefined, Some("Faulty display cable") },
   repair_actions : { Undefined, Some("Replaced display cable") },
   status : { Undefined } \cup { Some(t) : t \in ServiceStatuses },
   actual_cost : { Undefined, Some(17550) },
   technician_id : { Undefined, Some(2) }]
Provided(input) ==
  Cardinality({ f \in {"diagnosis", "repair_actions", "actual_cost",
                       "technician_id"} : input[f] # Undefined })
\* the inputs tried: a status or none, with none, one or all of the other
\* fields; for the id that no run creates, with a diagnosis
UpdateServiceInputs ==
  { input \in AllUpdateServiceInputs :
      IF input.id \in ServiceIds
      THEN Provided(input) \in {0, 1, 4}
      ELSE Provided(input) = 1 /\ input.diagnosis # Undefined }

\* every column written, the ones the input leaves out as NULL
updateDataWithAbsentAsNull(input, row) ==
  [row EXCEPT
     !.updated_at = now,
     !.diagnosis = input.diagnosis,
     !.repair_actions = input.repair_actions,
     !.status = IF input.status # Undefined THEN input.status[1] ELSE @,
     !.completed_at = IF input.status = Some("completed") THEN Some(now) ELSE @,
     !.actual_cost = input.actual_cost,
     !.technician_id = input.technician_id]

completedAtLeftAlone(input, row) == row.completed_at

completedAtClearedOnReopen(input, row) ==
  IF input.status = Some("completed") THEN Some(now) ELSE NULL

\* updateData['completed_at'] = new Date() when input.status === 'completed'
completedAt(input, row) ==
  IF input.status = Some("completed") THEN Some(now) ELSE row.completed_at

\* db.update(servicesTable).set(updateData): only the provided columns
updateData(input, row) ==
  [row EXCEPT
     !.updated_at = now,
     !.diagnosis = IF input.diagnosis # Undefined
                   THEN input.diagnosis ELSE @,
     !.repair_actions = IF input.repair_actions # Undefined
                        THEN input.repair_actions ELSE @,
     !.status = IF input.status # Undefined THEN input.status[1] ELSE @,
     !.completed_at = IF input.status # Undefined
                      THEN completedAt(input, row) ELSE @,
     !.actual_cost = IF input.actual_cost # Undefined
                     THEN input.actual_cost ELSE @,
     !.technician_id = IF input.technician_id # Undefined
                       THEN input.technician_id ELSE @]

\* the same handler with a guard: a completed or cancelled service keeps its
\* status
UpdateServiceGuarded(c, input) ==
  /\ ~InFlight(c)
  /\ IF ServiceExists(input.id)
        /\ (input.status = Undefined
              \/ services[input.id].status \notin {"completed", "cancelled"})
     THEN /\ services' = [services EXCEPT
               ![input.id] = updateData(input, services[input.id])]
          /\ calls' = [calls EXCEPT ![c] =
               [IdleCall EXCEPT
                  !.op = "updateService", !.pc = "done", !.input = input,
                  !.before = [NoBefore EXCEPT
                                !.status = services[input.id].status],
                  !.row = input.id]]
     ELSE /\ UNCHANGED services
          /\ calls' = [calls EXCEPT ![c] =
               [IdleCall EXCEPT
                  !.op = "updateService", !.pc = "failed", !.input = input,
                  !.error = NotFound("Service not found", input.id)]]
  /\ UNCHANGED <<products, stock_movements, transaction_items, transactions,
                 customers, budget, now, created_stock, users>>

UpdateService(c, input) ==
  /\ ~InFlight(c)
  /\ IF ServiceExists(input.id)
     THEN /\ services' = [services EXCEPT
               ![input.id] = updateData(input, services[input.id])]
          /\ calls' = [calls EXCEPT ![c] =
               [IdleCall EXCEPT
                  !.op = "updateService", !.pc = "done", !.input = input,
                  !.before = [NoBefore EXCEPT
                                !.status = services[input.id].status],
                  !.row = input.id]]
     ELSE /\ UNCHANGED services
          /\ calls' = [calls EXCEPT ![c] =
               [IdleCall EXCEPT
                  !.op = "updateService", !.pc = "failed", !.input = input,
                  !.error = NotFound("Service not found", input.id)]]
  /\ UNCHANGED <<products, stock_movements, transaction_items, transactions,
                 customers, budget, now, created_stock,
                 users>>

\* --------------------------------------------------------------- updateCustomer
\* name is a string when given; phone, email and address a string or null
UpdateCustomerInputs ==
  [id : CustomerIdInputs \cup {3},
   name : { Undefined, Some("Siti") },
   phone : { Undefined, Some(NULL), Some(Some("+62811")) },
   email : { Undefined, Some(Some("siti@example.com")) },
   address : { Undefined, Some(Some("Jl. Merdeka 1")) }]

\* updateData: only the provided fields, and always updated_at
updateCustomerData(input, row) ==
  [row EXCEPT
     !.name = IF input.name # Undefined THEN input.name[1] ELSE @,
     !.phone = IF input.phone # Undefined THEN input.phone[1] ELSE @,
     !.email = IF input.email # Undefined THEN input.email[1] ELSE @,
     !.address = IF input.address # Undefined THEN input.address[1] ELSE @,
     !.updated_at = now]

UpdateCustomer(c, input) ==
  /\ ~InFlight(c)
  /\ IF CustomerExists(input.id)
     THEN /\ customers' = [customers EXCEPT
               ![input.id] = updateCustomerData(input, customers[input.id])]
          /\ calls' = [calls EXCEPT ![c] =
               [IdleCall EXCEPT
                  !.op = "updateCustomer", !.pc = "done", !.input = input,
                  !.row = input.id]]
     ELSE /\ UNCHANGED customers
          /\ calls' = [calls EXCEPT ![c] =
               [IdleCall EXCEPT
                  !.op = "updateCustomer", !.pc = "failed", !.input = input,
                  !.error = NotFound("Customer not found", input.id)]]
  /\ UNCHANGED <<products, stock_movements, transaction_items, transactions,
                 services, budget, now, created_stock, users>>

\* ------------------------------------------------------------ getDashboardStats
\* the calendar: the days of a run, and the days on which a month starts
CalendarDays == {0, 1, 2}
MonthStartDays == {0, 2}

\* today.setHours(0, 0, 0, 0): the first instant of the day of t
startOfDay(t) == (t \div TicksPerDay) * TicksPerDay

\* tomorrow.setDate(tomorrow.getDate() + 1)
nextDay(today) == today + TicksPerDay

\* a month taken to start on the day after today
firstDayAfter(today) == today + TicksPerDay

\* new Date(today.getFullYear(), today.getMonth(), 1)
firstDayOfMonth(today) ==
  LET day == today \div TicksPerDay
      first == CHOOSE m \in MonthStartDays :
                 /\ m <= day
                 /\ \A k \in MonthStartDays : k <= day => k <= m
  IN first * TicksPerDay

RECURSIVE SumPaidAmount(_, _)
SumPaidAmount(rows, n) ==
  IF n = 0 THEN 0 ELSE SumPaidAmount(rows, n - 1) + rows[n].paid_amount

sumOfTotalAmountOrZero(rows) == SumTotalAmount(rows, Len(rows))

\* COALESCE(SUM(paid_amount), 0)
sumOfPaidAmountOrZero(rows) == SumPaidAmount(rows, Len(rows))

\* select count() from the rows a where clause keeps
count(rows) == Len(rows)

getDashboardStats ==
  LET today == startOfDay(now)
      tomorrow == nextDay(today)
      firstDay == firstDayOfMonth(today)
  IN [total_customers |-> Cardinality(DOMAIN customers),
      pending_services |->
        count(SelectSeq(services, LAMBDA r : r.status = "pending")),
      completed_services_today |->
        count(SelectSeq(services,
                LAMBDA r : /\ r.status = "completed"
                           /\ r.completed_at # NULL
                           /\ r.completed_at[1] >= today
                           /\ r.completed_at[1] < tomorrow)),
      low_stock_items |->
        Cardinality({ p \in DOMAIN products :
                        products[p].stock_quantity
                          <= products[p].minimum_stock }),
      today_revenue |->
        sumOfPaidAmountOrZero(
          SelectSeq(transactions,
                    LAMBDA r : r.created_at >= today /\ r.created_at < tomorrow)),
      this_month_revenue |->
        sumOfPaidAmountOrZero(
          SelectSeq(transactions, LAMBDA r : r.created_at >= firstDay))]

GetDashboardStats(c) ==
  /\ ~InFlight(c)
  /\ calls' = [calls EXCEPT ![c] =
       [IdleCall EXCEPT !.op = "getDashboardStats", !.pc = "done",
                        !.result = getDashboardStats]]
  /\ UNCHANGED <<products, stock_movements, transaction_items, transactions,
                 services, customers, budget, now, created_stock, users>>

\* time passes to a later instant of the calendar: the first instant of a
\* day, or one later in that day
CalendarInstants == { d * TicksPerDay + k : d \in CalendarDays, k \in {0, 1} }
Pass ==
  /\ \E t \in CalendarInstants : t > now /\ now' = t
  /\ UNCHANGED <<products, stock_movements, transaction_items, transactions,
                 services, customers, calls, budget, created_stock, users>>

\* ---------------------------------------------------------------- createProduct
PlaceholderId == 0      \* the id of the product createProduct returns

ProductNames == {"RAM 8GB", "USB Cable"}
ProductTypes == {"sparepart", "accessory"}
CreateProductInputs ==
  [name : ProductNames, type : ProductTypes, price : Prices,
   stock_quantity : 0..MaxStock, minimum_stock : MinimumStocks]

\* the handler resolves to a product built from the input, with no statement
\* on the database (the description, which no handler modelled here reads,
\* is not carried)
CreateProduct(c, input) ==
  /\ ~InFlight(c)
  /\ calls' = [calls EXCEPT ![c] =
       [IdleCall EXCEPT
          !.op = "createProduct", !.pc = "done", !.input = input,
          !.result = [id |-> PlaceholderId,
                      row |-> [name |-> input.name,
                               type |-> input.type,
                               price |-> input.price,
                               stock_quantity |-> input.stock_quantity,
                               minimum_stock |-> input.minimum_stock,
                               updated_at |-> now]]]]
  /\ UNCHANGED <<products, stock_movements, transaction_items, transactions,
                 services, customers, budget, now, created_stock, users>>

\* ------------------------------------------------------------ the get handlers
\* a row as a handler returns it, with its id
rowWithId(table, id) == [id |-> id, row |-> table[id]]

\* results.length === 0 ? null : results[0]
firstOrNull(table, id) ==
  IF id \in DOMAIN table THEN Some(rowWithId(table, id)) ELSE NULL

\* oldest first
ascCreatedAt(table, ids) ==
  { order \in [1..Cardinality(ids) -> ids] :
      /\ \A id \in ids : \E k \in DOMAIN order : order[k] = id
      /\ \A j, k \in DOMAIN order :
           j < k => table[order[j]].created_at <= table[order[k]].created_at }

\* the orders in which ORDER BY created_at DESC may return the rows ids:
\* newest first, rows of the same instant in any order
descCreatedAt(table, ids) ==
  { order \in [1..Cardinality(ids) -> ids] :
      /\ \A id \in ids : \E k \in DOMAIN order : order[k] = id
      /\ \A j, k \in DOMAIN order :
           j < k => table[order[j]].created_at >= table[order[k]].created_at }

\* results.map(...): the selected rows in the order the database gave them
rowsInOrder(table, order) ==
  [k \in DOMAIN order |-> rowWithId(table, order[k])]

\* a select with no ORDER BY: the rows with the given ids
rowsOf(table, ids) == { rowWithId(table, id) : id \in ids }

Query(c, op, input, result) ==
  /\ ~InFlight(c)
  /\ calls' = [calls EXCEPT ![c] =
       [IdleCall EXCEPT !.op = op, !.pc = "done", !.input = input,
                        !.result = result]]
  /\ UNCHANGED <<products, stock_movements, transaction_items, transactions,
                 services, customers, budget, now, created_stock, users>>

\* the same handler throwing when no row has the id
GetProductOrThrow(c, id) ==
  /\ ~InFlight(c)
  /\ calls' = [calls EXCEPT ![c] =
       IF id \in DOMAIN products
       THEN [IdleCall EXCEPT !.op = "getProduct", !.pc = "done",
                             !.input = id,
                             !.result = firstOrNull(products, id)]
       ELSE [IdleCall EXCEPT !.op = "getProduct", !.pc = "failed",
                             !.input = id,
                             !.error = NotFound("Product not found", id)]]
  /\ UNCHANGED <<products, stock_movements, transaction_items, transactions,
                 services, customers, budget, now, created_stock, users>>

GetProduct(c, id) == Query(c, "getProduct", id, firstOrNull(products, id))

GetService(c, id) == Query(c, "getService", id, firstOrNull(services, id))

GetTransaction(c, id) ==
  Query(c, "getTransaction", id, firstOrNull(transactions, id))

GetCustomer(c, id) == Query(c, "getCustomer", id, firstOrNull(customers, id))

GetStockMovements(c) ==
  \E order \in descCreatedAt(stock_movements, DOMAIN stock_movements) :
    Query(c, "getStockMovements", <<>>, rowsInOrder(stock_movements, order))

GetStockMovementsByProduct(c, productId) ==
  \E order \in descCreatedAt(stock_movements,
                 { i \in DOMAIN stock_movements :
                     stock_movements[i].product_id = productId }) :
    Query(c, "getStockMovementsByProduct", productId,
          rowsInOrder(stock_movements, order))

GetCustomerHistory(c, customerId) ==
  \E servicesQuery \in descCreatedAt(services,
         { i \in DOMAIN services : services[i].customer_id = customerId }) :
    \E transactionsQuery \in descCreatedAt(transactions,
           { i \in DOMAIN transactions :
               transactions[i].customer_id = customerId }) :
      Query(c, "getCustomerHistory", customerId,
            [services |-> rowsInOrder(services, servicesQuery),
             transactions |-> rowsInOrder(transactions, transactionsQuery)])

GetTransactions(c) ==
  Query(c, "getTransactions", <<>>, rowsOf(transactions, DOMAIN transactions))

GetUsers(c) == Query(c, "getUsers", <<>>, rowsOf(users, DOMAIN users))

GetTechnicians(c) ==
  Query(c, "getTechnicians", <<>>,
        rowsOf(users, { id \in DOMAIN users : users[id].role = "technician" }))

\* --------------------------------------- specifications of the other handlers
EmptyStore ==
  /\ products = [p \in ProductIds |->
                   ProductRow(MaxStock, DefaultMinimumStock, 1299)]
  /\ created_stock = [p \in ProductIds |-> products[p].stock_quantity]
  /\ stock_movements = <<>>
  /\ transaction_items = <<>>
  /\ transactions = <<>>
  /\ customers = [id \in {1} |-> SomeCustomer]
  /\ users = SomeUsers
  /\ calls = [c \in 1..1 |-> IdleCall]
  /\ budget = 0
  /\ now = 0

\* transactions made over time, and financial reports over them
InitFinancial ==
  /\ EmptyStore
  /\ services = <<>>

\* sales and service payments of either customer id, made by no known caller
RevenueInputs ==
  { input \in CreateTransactionInputs :
      input.service_id = NULL /\ input.ctx_user = Undefined }

NextFinancial ==
  \/ Tick
  \/ \E c \in DOMAIN calls :
       \E input \in RevenueInputs : CreateTransaction(c, input)
  \/ \E c \in DOMAIN calls :
       \E input \in FinancialReportInputs : GetFinancialReport(c, input)

SpecFinancial == InitFinancial /\ [][NextFinancial]_vars

\* a service ticket made and updated over time
InitService ==
  /\ EmptyStore
  /\ services = <<>>

NextService ==
  \/ Tick
  \/ \E c \in DOMAIN calls :
       \E input \in CreateServiceInputs : CreateService(c, input)
  \/ \E c \in DOMAIN calls :
       \E input \in UpdateServiceInputs : UpdateService(c, input)

SpecService == InitService /\ [][NextService]_vars

\* a sale paid in part, and one not paid yet
PartPayments == { <<2550, 1000>>, <<1000, 0>> }

\* payments and one service ticket over the days of the calendar, and the
\* dashboard over them; the store holds no customer, or two
InitDashboard ==
  /\ products = [p \in ProductIds |->
                   ProductRow(MaxStock, DefaultMinimumStock, 1299)]
  /\ created_stock = [p \in ProductIds |-> products[p].stock_quantity]
  /\ stock_movements = <<>>
  /\ transaction_items = <<>>
  /\ transactions = <<>>
  /\ services = <<>>
  /\ customers \in { [id \in ids |-> SomeCustomer] : ids \in {{}, {1, 2}} }
  /\ users = SomeUsers
  /\ calls = [c \in 1..1 |-> IdleCall]
  /\ budget = 0
  /\ now = 0

NextDashboard ==
  \/ Pass
  \/ \E c \in DOMAIN calls :
       \E input \in [customer_id : {1}, type : {"sale"}, service_id : {NULL},
                     amounts : PartPayments, ctx_user : {Undefined}] :
         CreateTransaction(c, input)
  \/ \E c \in DOMAIN calls :
       \E input \in [customer_id : {1}, estimated_cost : {NULL}] :
         CreateService(c, input)
  \/ \E c \in DOMAIN calls :
       \E input \in { i \in UpdateServiceInputs :
                        /\ i.id \in ServiceIds /\ Provided(i) = 0
                        /\ i.status \in { Some("in_progress"),
                                          Some("completed") } } :
         UpdateService(c, input)
  \/ \E c \in DOMAIN calls : GetDashboardStats(c)

SpecDashboard == InitDashboard /\ [][NextDashboard]_vars

\* every get handler over a store that movements, a payment and a service
\* ticket fill; the store holds no user, an administrator, or a technician too
InitQuery ==
  /\ products \in [ProductIds ->
       { ProductRow(0, 1, 1299),
         ProductRow(MaxStock, DefaultMinimumStock, 1299) }]
  /\ created_stock = [p \in ProductIds |-> products[p].stock_quantity]
  /\ stock_movements = <<>>
  /\ transaction_items = <<>>
  /\ transactions = <<>>
  /\ services = <<>>
  /\ customers = [id \in {1} |-> SomeCustomer]
  /\ users \in { [id \in ids |-> SomeUsers[id]] : ids \in {{}, {1}, {1, 2}} }
  /\ calls = [c \in 1..1 |-> IdleCall]
  /\ budget = MaxCalls
  /\ now = 0

NextQuery ==
  \/ \E c \in DOMAIN calls :
       \E input \in [product_id : ProductIds, type : {"in"}, quantity : {1}] :
         CreateStockMovementSelect(c, input)
  \/ \E c \in DOMAIN calls : CreateStockMovementInsert(c)
  \/ \E c \in DOMAIN calls : CreateStockMovementUpdate(c)
  \/ \E c \in DOMAIN calls :
       \E input \in [customer_id : {1}, type : {"sale"}, service_id : {NULL},
                     amounts : {<<1000, 1000>>}, ctx_user : {Undefined}] :
         CreateTransaction(c, input)
  \/ \E c \in DOMAIN calls :
       \E input \in [customer_id : {1}, estimated_cost : {NULL}] :
         CreateService(c, input)
  \/ \E c \in DOMAIN calls : \E id \in ProductIdInputs : GetProduct(c, id)
  \/ \E c \in DOMAIN calls : \E id \in ServiceIdInputs : GetService(c, id)
  \/ \E c \in DOMAIN calls :
       \E id \in TransactionIdInputs : GetTransaction(c, id)
  \/ \E c \in DOMAIN calls : \E id \in CustomerIdInputs : GetCustomer(c, id)
  \/ \E c \in DOMAIN calls : GetStockMovements(c)
  \/ \E c \in DOMAIN calls :
       \E id \in ProductIdInputs : GetStockMovementsByProduct(c, id)
  \/ \E c \in DOMAIN calls : GetLowStockProducts(c)
  \/ \E c \in DOMAIN calls : GetStockReport(c)
  \/ \E c \in DOMAIN calls :
       \E input \in { i \in FinancialReportInputs : i.start_date = 0 } :
         GetFinancialReport(c, input)
  \/ \E c \in DOMAIN calls : GetDashboardStats(c)
  \/ \E c \in DOMAIN calls :
       \E id \in CustomerIdInputs : GetCustomerHistory(c, id)
  \/ \E c \in DOMAIN calls : GetTransactions(c)
  \/ \E c \in DOMAIN calls : GetUsers(c)
  \/ \E c \in DOMAIN calls : GetTechnicians(c)

SpecQuery == InitQuery /\ [][NextQuery]_vars

\* two customers with a service ticket each, made at instant 0; the first
\* customer and the first ticket are updated over time, and so is an id that
\* no customer and no ticket has
InitUpdate ==
  /\ products = [p \in ProductIds |->
                   ProductRow(MaxStock, DefaultMinimumStock, 1299)]
  /\ created_stock = [p \in ProductIds |-> products[p].stock_quantity]
  /\ stock_movements = <<>>
  /\ transaction_items = <<>>
  /\ transactions = <<>>
  /\ now = 0
  /\ services = [id \in {1, 2} |->
                   NewService([customer_id |-> id, estimated_cost |-> NULL])]
  /\ customers = [id \in {1, 2} |-> SomeCustomer]
  /\ users = SomeUsers
  /\ calls = [c \in 1..1 |-> IdleCall]
  /\ budget = 0

NextUpdate ==
  \/ Tick
  \/ \E c \in DOMAIN calls :
       \E input \in [id : {1, 3},
                     diagnosis : { Undefined, Some("Faulty display cable") },
                     repair_actions : { Undefined },
                     status : { Undefined, Some("in_progress"),
                                Some("completed") },
                     actual_cost : { Undefined, Some(17550) },
                     technician_id : { Undefined }] :
         UpdateService(c, input)
  \/ \E c \in DOMAIN calls :
       \E input \in { i \in UpdateCustomerInputs :
                        /\ i.id \in {1, 3}
                        /\ i.email = Undefined /\ i.address = Undefined } :
         UpdateCustomer(c, input)

SpecUpdate == InitUpdate /\ [][NextUpdate]_vars

\* payments of either kind for a customer and a service ticket that may or
\* may not exist yet
InitTransaction ==
  /\ EmptyStore
  /\ services = <<>>

NextTransaction ==
  \/ \E c \in DOMAIN calls :
       \E input \in CreateServiceInputs : CreateService(c, input)
  \/ \E c \in DOMAIN calls :
       \E input \in { i \in CreateTransactionInputs : i.ctx_user = Undefined } :
         CreateTransaction(c, input)

SpecTransaction == InitTransaction /\ [][NextTransaction]_vars

\* movements received over time for either product, and the movements of a
\* product asked for
InitMovements ==
  /\ products = [p \in ProductIds |->
                   ProductRow(MaxStock, DefaultMinimumStock, 1299)]
  /\ LedgerStore(1, MaxCalls + 1)

NextMovements ==
  \/ Tick
  \/ \E c \in DOMAIN calls :
       \E input \in [product_id : ProductIds, type : {"in"}, quantity : {1}] :
         CreateStockMovementSelect(c, input)
  \/ \E c \in DOMAIN calls : CreateStockMovementInsert(c)
  \/ \E c \in DOMAIN calls : CreateStockMovementUpdate(c)
  \/ \E c \in DOMAIN calls :
       \E id \in ProductIdInputs : GetStockMovementsByProduct(c, id)

SpecMovements == InitMovements /\ [][NextMovements]_vars

\* products made and looked up, by two callers
InitProduct ==
  /\ products = [p \in ProductIds |->
                   ProductRow(MaxStock, DefaultMinimumStock, 1299)]
  /\ created_stock = [p \in ProductIds |-> products[p].stock_quantity]
  /\ stock_movements = <<>>
  /\ transaction_items = <<>>
  /\ transactions = <<>>
  /\ services = <<>>
  /\ customers = [id \in {1} |-> SomeCustomer]
  /\ users = SomeUsers
  /\ calls = [c \in 1..2 |-> IdleCall]
  /\ budget = 0
  /\ now = 0

NextProduct ==
  \/ \E c \in DOMAIN calls :
       \E input \in CreateProductInputs : CreateProduct(c, input)
  \/ \E c \in DOMAIN calls :
       \E id \in ProductIdInputs \cup {PlaceholderId} : GetProduct(c, id)

SpecProduct == InitProduct /\ [][NextProduct]_vars

\* ------------------------------------- the handlers that are declarations
\* number || default: the default when the number is absent or 0
numberOr(number, default) == IF truthy(number) THEN number[1] ELSE default

\* text || default: the default when the text is absent or ''
textOr(text, default) ==
  IF text = Undefined \/ text = Some("") THEN default ELSE text[1]

CreateCustomerInputs == [name : {"Siti"}, phone : {NULL, Some("+62811")}]

\* resolves to a customer built from the input, with no statement on the
\* database
CreateCustomer(c, input) ==
  Query(c, "createCustomer", input,
        [id |-> PlaceholderId,
         row |-> [name |-> input.name, phone |-> input.phone,
                  updated_at |-> now]])

UserRoles == {"admin", "technician"}
CreateUserInputs == [username : {"tono"}, role : UserRoles]

\* resolves to a user built from the input, with no statement on the database
CreateUser(c, input) ==
  Query(c, "createUser", input,
        [id |-> PlaceholderId,
         row |-> [username |-> input.username, role |-> input.role,
                  is_active |-> TRUE]])

UpdateProductInputs ==
  [id : ProductIdInputs, name : {Undefined},
   stock_quantity : {Undefined, Some(0), Some(1)},
   minimum_stock : {Undefined, Some(1)}]

\* resolves to a product built from the input, with no statement on the
\* database
UpdateProduct(c, input) ==
  Query(c, "updateProduct", input,
        [id |-> input.id,
         row |-> [name |-> textOr(input.name, "Updated Product"),
                  stock_quantity |-> numberOr(input.stock_quantity, 0),
                  minimum_stock |-> numberOr(input.minimum_stock, 0),
                  updated_at |-> now]])

\* every handler of the router that writes, or is declared to write, over a
\* store with an open transaction; one invocation at a time
InitWriters ==
  /\ products = [p \in ProductIds |->
                   ProductRow(MaxStock, DefaultMinimumStock, 1299)]
  /\ LedgerStore(1, MaxCalls)

NextWriters ==
  \/ \E c \in DOMAIN calls :
       \E input \in [product_id : {1}, type : MovementTypes, quantity : {1}] :
         CreateStockMovementSelect(c, input)
  \/ \E c \in DOMAIN calls : CreateStockMovementInsert(c)
  \/ \E c \in DOMAIN calls : CreateStockMovementUpdate(c)
  \/ \E c \in DOMAIN calls :
       \E input \in [transaction_id : {1}, product_id : {1},
                     quantity : {1}, unit_price : UnitPrices] :
         CreateTransactionItemSelectTransaction(c, input)
  \/ \E c \in DOMAIN calls : CreateTransactionItemSelectProduct(c)
  \/ \E c \in DOMAIN calls : CreateTransactionItemInsert(c)
  \/ \E c \in DOMAIN calls : CreateTransactionItemUpdate(c)
  \/ \E c \in DOMAIN calls :
       \E input \in [customer_id : {1}, type : {"sale"}, service_id : {NULL},
                     amounts : {<<1000, 1000>>}, ctx_user : {Undefined}] :
         CreateTransaction(c, input)
  \/ \E c \in DOMAIN calls :
       \E input \in [customer_id : {1}, estimated_cost : {NULL}] :
         CreateService(c, input)
  \/ \E c \in DOMAIN calls :
       \E input \in { i \in UpdateServiceInputs :
                        /\ i.id \in ServiceIds /\ Provided(i) = 0
                        /\ i.status \in { Some("completed"),
                                          Some("cancelled") } } :
         UpdateService(c, input)
  \/ \E c \in DOMAIN calls :
       \E input \in { i \in UpdateCustomerInputs :
                        /\ i.id = 1 /\ i.name # Undefined
                        /\ i.phone = Undefined /\ i.email = Undefined
                        /\ i.address = Undefined } :
         UpdateCustomer(c, input)
  \/ \E c \in DOMAIN calls :
       \E input \in { i \in CreateProductInputs :
                        /\ i.name = "USB Cable" /\ i.type = "accessory"
                        /\ i.price = 250 /\ i.stock_quantity = 0
                        /\ i.minimum_stock = 0 } :
         CreateProduct(c, input)
  \/ \E c \in DOMAIN calls :
       \E input \in { i \in UpdateProductInputs :
                        i.id = 1 /\ i.minimum_stock = Undefined } :
         UpdateProduct(c, input)
  \/ \E c \in DOMAIN calls :
       \E input \in { i \in CreateCustomerInputs : i.phone = NULL } :
         CreateCustomer(c, input)
  \/ \E c \in DOMAIN calls :
       \E input \in { i \in CreateUserInputs : i.role = "technician" } :
         CreateUser(c, input)

SpecWriters == InitWriters /\ [][NextWriters]_vars

\* movements and payments asked for by no known caller or by user 2, over a
\* store that holds no user, or an administrator and a technician
InitCreatedBy ==
  /\ products = [p \in ProductIds |->
                   ProductRow(MaxStock, DefaultMinimumStock, 1299)]
  /\ created_stock = [p \in ProductIds |-> products[p].stock_quantity]
  /\ stock_movements = <<>>
  /\ transaction_items = <<>>
  /\ transactions = <<>>
  /\ services = <<>>
  /\ customers = [id \in {1} |-> SomeCustomer]
  /\ users \in { [id \in ids |-> SomeUsers[id]] : ids \in {{}, {1, 2}} }
  /\ calls = [c \in 1..1 |-> IdleCall]
  /\ budget = MaxCalls
  /\ now = 0

\* the router hands the handler the input and the request context
NextCreatedBy ==
  \/ \E c \in DOMAIN calls :
       \E input \in [product_id : ProductIds, type : MovementTypes,
                     quantity : {1}, ctx_user : Callers] :
         CreateStockMovementSelect(c, input)
  \/ \E c \in DOMAIN calls : CreateStockMovementInsert(c)
  \/ \E c \in DOMAIN calls : CreateStockMovementUpdate(c)
  \/ \E c \in DOMAIN calls :
       \E input \in { i \in CreateTransactionInputs :
                        i.customer_id = 1 /\ i.service_id = NULL } :
         CreateTransaction(c, input)

SpecCreatedBy == InitCreatedBy /\ [][NextCreatedBy]_vars

\* items of one product sold with MaxConc invocations in flight, and no other
\* writer
InitItems ==
  /\ products \in [ProductIds ->
       { ProductRow(s, DefaultMinimumStock, 1299) : s \in 0..MaxStock }]
  /\ LedgerStore(MaxConc, MaxConc + 1)

NextItems ==
  \/ \E c \in DOMAIN calls :
       \E input \in [transaction_id : {1}, product_id : ContendedProductIds,
                     quantity : Quantities, unit_price : UnitPrices] :
         CreateTransactionItemSelectTransaction(c, input)
  \/ \E c \in DOMAIN calls : CreateTransactionItemSelectProduct(c)
  \/ \E c \in DOMAIN calls : CreateTransactionItemInsert(c)
  \/ \E c \in DOMAIN calls : CreateTransactionItemUpdate(c)

SpecItems == InitItems /\ [][NextItems]_vars

\* the four handlers that insert a row naming other rows, each given ids that
\* exist and ids that do not
InitReferences ==
  /\ products = [p \in ProductIds |->
                   ProductRow(MaxStock, DefaultMinimumStock, 1299)]
  /\ LedgerStore(1, MaxCalls)

NextReferences ==
  \/ \E c \in DOMAIN calls :
       \E input \in { i \in StockMovementInputs :
                        i.type = "in" /\ i.quantity = 1 } :
         CreateStockMovementSelect(c, input)
  \/ \E c \in DOMAIN calls : CreateStockMovementInsert(c)
  \/ \E c \in DOMAIN calls : CreateStockMovementUpdate(c)
  \/ \E c \in DOMAIN calls :
       \E input \in { i \in TransactionItemInputs : i.quantity = 1 } :
         CreateTransactionItemSelectTransaction(c, input)
  \/ \E c \in DOMAIN calls : CreateTransactionItemSelectProduct(c)
  \/ \E c \in DOMAIN calls : CreateTransactionItemInsert(c)
  \/ \E c \in DOMAIN calls : CreateTransactionItemUpdate(c)
  \/ \E c \in DOMAIN calls :
       \E input \in { i \in CreateServiceInputs : i.estimated_cost = NULL } :
         CreateService(c, input)
  \/ \E c \in DOMAIN calls :
       \E input \in { i \in CreateTransactionInputs :
                        /\ i.ctx_user = Undefined /\ i.type = "service"
                        /\ i.amounts = <<1000, 1000>> } :
         CreateTransaction(c, input)

SpecReferences == InitReferences /\ [][NextReferences]_vars

\* ------------------------------------------------------------------- claims
\* quantities of the rows of a table that satisfy Keep, counted unit by unit
Units(rows, Keep(_)) ==
  Cardinality(UNION { { <<i, k>> : k \in 1..rows[i].quantity } :
                        i \in { j \in 1..Len(rows) : Keep(rows[j]) } })
MovedIn(p) ==
  Units(stock_movements, LAMBDA m : m.product_id = p /\ m.type = "in")
MovedOut(p) ==
  Units(stock_movements, LAMBDA m : m.product_id = p /\ m.type = "out")
Sold(p) == Units(transaction_items, LAMBDA i : i.product_id = p)
Finished(c, op) == calls[c].op = op /\ calls[c].pc \in {"done", "failed"}

\* C1: a createStockMovement on an existing product always succeeds, and when
\* it has returned the product's stock_quantity is its value before the call
\* plus the quantity for 'in' and minus the quantity for 'out', whatever the
\* stock was (an 'out' larger than the stock leaves it negative).
C1_MovementAppliesFullDelta ==
  \A c \in DOMAIN calls :
    Finished(c, "createStockMovement")
      /\ ProductExists(calls[c].input.product_id) =>
        /\ calls[c].pc = "done"
        /\ products[calls[c].input.product_id].stock_quantity =
             IF calls[c].input.type = "in"
             THEN calls[c].before.stock + calls[c].input.quantity
             ELSE calls[c].before.stock - calls[c].input.quantity

C1_Witness_OutBelowZero ==
  \E c \in DOMAIN calls :
    /\ Finished(c, "createStockMovement")
    /\ calls[c].pc = "done"
    /\ calls[c].input.type = "out"
    /\ calls[c].input.quantity > calls[c].before.stock
    /\ products[calls[c].input.product_id].stock_quantity < 0

\* C2: a createTransactionItem on an existing transaction and product, run
\* alone: with quantity <= stock it returns having added exactly one item row
\* (its own) and lowered the stock by exactly the quantity; with quantity >
\* stock it fails with Insufficient stock (available = the stock, requested =
\* the quantity), adds no row and leaves the stock as it was.
C2_ItemChecksThenDecrements ==
  \A c \in DOMAIN calls :
    Finished(c, "createTransactionItem")
      /\ TransactionExists(calls[c].input.transaction_id)
      /\ ProductExists(calls[c].input.product_id) =>
        LET input == calls[c].input
            before == calls[c].before
            stock == products[input.product_id].stock_quantity
        IN IF input.quantity <= before.stock
           THEN /\ calls[c].pc = "done"
                /\ Len(transaction_items) = before.items + 1
                /\ transaction_items[Len(transaction_items)].product_id =
                     input.product_id
                /\ transaction_items[Len(transaction_items)].transaction_id =
                     input.transaction_id
                /\ transaction_items[Len(transaction_items)].quantity =
                     input.quantity
                /\ stock = before.stock - input.quantity
           ELSE /\ calls[c].pc = "failed"
                /\ calls[c].error =
                     InsufficientStock(before.stock, input.quantity)
                /\ Len(transaction_items) = before.items
                /\ stock = before.stock

\* an item took the whole stock, and the next item is refused at stock 0
C2_Witness_RefusedAtZero ==
  \E c \in DOMAIN calls :
    /\ Finished(c, "createTransactionItem")
    /\ calls[c].pc = "failed"
    /\ calls[c].error.kind = "Insufficient stock"
    /\ calls[c].error.available = 0
    /\ created_stock[calls[c].input.product_id] > 0
    /\ Sold(calls[c].input.product_id) =
         created_stock[calls[c].input.product_id]

\* C3: ledger conservation in sequential runs: whenever no invocation is in
\* progress, every product's stock_quantity is the stock it was created with
\* plus its 'in' movements minus its 'out' movements minus its item rows.
C3_LedgerConservation ==
  NoCallInProgress =>
    \A p \in DOMAIN products :
      products[p].stock_quantity =
        created_stock[p] + MovedIn(p) - MovedOut(p) - Sold(p)

C3_Witness_MovementAndItem ==
  /\ NoCallInProgress
  /\ \E p \in DOMAIN products :
       /\ MovedIn(p) + MovedOut(p) > 0
       /\ Sold(p) > 0

\* C4: the stock check of createTransactionItem is made once, on the stock the
\* invocation read: an invocation that has passed it (read >= quantity) keeps
\* the stock it read and goes on to insert its row and return, whatever other
\* invocations have written since, so two invocations that read the same
\* stock both succeed.
C4_PassedCheckAlwaysSucceeds ==
  [][\A c \in DOMAIN calls :
       calls[c].op = "createTransactionItem"
         /\ calls[c].pc \in {"ti_insert", "ti_update"} =>
           /\ calls[c].read >= calls[c].input.quantity
           /\ calls'[c].pc \in {"ti_insert", "ti_update", "done"}
           /\ calls'[c].read = calls[c].read]_vars

\* two items of one product, each within the stock, together above it
C4_Witness_Oversold ==
  \E c, d \in DOMAIN calls :
    /\ c # d
    /\ calls[c].op = "createTransactionItem" /\ calls[c].pc = "done"
    /\ calls[d].op = "createTransactionItem" /\ calls[d].pc = "done"
    /\ calls[c].input.product_id = calls[d].input.product_id
    /\ LET p == calls[c].input.product_id IN
         /\ stock_movements = <<>>
         /\ calls[c].input.quantity <= created_stock[p]
         /\ calls[d].input.quantity <= created_stock[p]
         /\ Sold(p) = calls[c].input.quantity + calls[d].input.quantity
         /\ Sold(p) > created_stock[p]

\* C5: once every invocation has returned, the stock of a product reflects
\* the full delta of every one of its movements: it is the created stock plus
\* the 'in' movements minus the 'out' movements minus the items whose
\* decrement was applied (some set of the product's item rows).
C5_NoMovementDeltaLost ==
  NoCallInProgress =>
    \A p \in DOMAIN products :
      \E applied \in SUBSET { i \in 1..Len(transaction_items) :
                               transaction_items[i].product_id = p } :
        products[p].stock_quantity =
          created_stock[p] + MovedIn(p) - MovedOut(p)
            - Units(transaction_items,
                    LAMBDA r : \E i \in applied : transaction_items[i] = r
                                                  /\ r.product_id = p)

Returned(c, op) == calls[c].op = op /\ calls[c].pc = "done"
ReturnedIds(c) == { r.id : r \in calls[c].result }

C7_BoundaryIsNotLowStock ==
  \A c \in DOMAIN calls :
    Returned(c, "getLowStockProducts") =>
      /\ ReturnedIds(c) \subseteq DOMAIN products
      /\ \A p \in DOMAIN products :
           /\ products[p].stock_quantity >= products[p].minimum_stock
                => p \notin ReturnedIds(c)
           /\ products[p].stock_quantity = 0 /\ products[p].minimum_stock = 0
                => p \notin ReturnedIds(c)
           /\ products[p].stock_quantity = 0 /\ products[p].minimum_stock > 0
                => p \in ReturnedIds(c)
           /\ products[p].stock_quantity < products[p].minimum_stock
                => p \in ReturnedIds(c)

\* stock 0 with minimum 0 left out, stock 0 with a positive minimum returned
C7_Witness_ZeroAndZero ==
  \E c \in DOMAIN calls :
    /\ Returned(c, "getLowStockProducts")
    /\ \E p, q \in DOMAIN products :
         /\ products[p].stock_quantity = 0 /\ products[p].minimum_stock = 0
         /\ p \notin ReturnedIds(c)
         /\ products[q].stock_quantity = 0 /\ products[q].minimum_stock > 0
         /\ q \in ReturnedIds(c)

\* C8: getStockReport returns one row per product and no other row; a row
\* carries the sums of its own product's 'in' and 'out' movements (0 without
\* any), the product's stock_quantity as current_stock, stock_quantity * price
\* as stock_value, and is_low_stock = (stock_quantity <= minimum_stock).
C8_StockReportRows ==
  \A c \in DOMAIN calls :
    Returned(c, "getStockReport") =>
      LET report == calls[c].result IN
      /\ Len(report) = Cardinality(DOMAIN products)
      /\ { report[k].product_id : k \in 1..Len(report) } = DOMAIN products
      /\ \A k \in 1..Len(report) :
           LET p == report[k].product_id IN
           /\ report[k].stock_in = MovedIn(p)
           /\ report[k].stock_out = MovedOut(p)
           /\ report[k].current_stock = products[p].stock_quantity
           /\ report[k].minimum_stock = products[p].minimum_stock
           /\ report[k].stock_value =
                products[p].stock_quantity * products[p].price
           /\ report[k].is_low_stock =
                (products[p].stock_quantity <= products[p].minimum_stock)

\* a report over one product with 'in' and 'out' movements and one without any
C8_Witness_MovedAndUnmoved ==
  \E c \in DOMAIN calls :
    /\ Returned(c, "getStockReport")
    /\ \E p, q \in DOMAIN products :
         /\ MovedIn(p) > 0 /\ MovedOut(p) > 0
         /\ MovedIn(q) = 0 /\ MovedOut(q) = 0
         /\ \E k \in 1..Len(calls[c].result) :
              /\ calls[c].result[k].product_id = q
              /\ calls[c].result[k].stock_in = 0
              /\ calls[c].result[k].is_low_stock

\* the sum of total_amount over the transactions with the given ids
RECURSIVE TotalAmount(_)
TotalAmount(ids) ==
  IF ids = {} THEN 0
  ELSE LET i == CHOOSE i \in ids : TRUE
       IN transactions[i].total_amount + TotalAmount(ids \ {i})

\* the transactions created from the first instant of the start day to the
\* first instant of the end day, both included
InWindow(input) ==
  { i \in 1..Len(transactions) :
      /\ input.start_date * TicksPerDay <= transactions[i].created_at
      /\ transactions[i].created_at <= input.end_date * TicksPerDay }

\* C9: getFinancialReport never fails and counts exactly the transactions
\* with start_date <= created_at <= end_date: service_revenue and
\* sales_revenue are their total_amount summed per type, total_revenue the sum
\* over all of them (so the two add up to it), total_transactions their
\* number, and all four are 0 when none falls in the window.
C9_FinancialReportOverWindow ==
  \A c \in DOMAIN calls :
    calls[c].op = "getFinancialReport" =>
      LET report == calls[c].result
          counted == InWindow(calls[c].input)
      IN /\ calls[c].pc = "done"
         /\ report.service_revenue =
              TotalAmount({ i \in counted : transactions[i].type = "service" })
         /\ report.sales_revenue =
              TotalAmount({ i \in counted : transactions[i].type = "sale" })
         /\ report.total_revenue = TotalAmount(counted)
         /\ report.total_revenue =
              report.service_revenue + report.sales_revenue
         /\ report.total_transactions = Cardinality(counted)
         /\ counted = {} =>
              /\ report.total_revenue = 0 /\ report.service_revenue = 0
              /\ report.sales_revenue = 0 /\ report.total_transactions = 0

\* a report that counts a transaction created at the very end of the window
\* and leaves out one created before its start
C9_Witness_EndBoundCounted ==
  \E c \in DOMAIN calls :
    /\ Returned(c, "getFinancialReport")
    /\ calls[c].result.total_transactions = 1
    /\ calls[c].result.total_revenue > 0
    /\ \E i, j \in 1..Len(transactions) :
         /\ transactions[i].created_at =
              calls[c].input.end_date * TicksPerDay
         /\ i \in InWindow(calls[c].input)
         /\ transactions[j].created_at <
              calls[c].input.start_date * TicksPerDay

\* C10: an updateService of an existing service with status 'completed'
\* leaves it with status 'completed' and a non-null completed_at; one that
\* provides no status leaves its status and its completed_at as they were.
C10_CompletedSetsCompletedAt ==
  [][\A c \in DOMAIN calls :
       calls'[c].op = "updateService"
         /\ UpdateService(c, calls'[c].input)
         /\ ServiceExists(calls'[c].input.id) =>
           LET input == calls'[c].input IN
           /\ calls'[c].pc = "done"
           /\ input.status = Some("completed") =>
                /\ services'[input.id].status = "completed"
                /\ services'[input.id].completed_at # NULL
           /\ input.status = Undefined =>
                /\ services'[input.id].status = services[input.id].status
                /\ services'[input.id].completed_at =
                     services[input.id].completed_at]_vars

\* a completed service, then updated without a status and still completed
C10_Witness_StatusLessUpdateOfCompleted ==
  \E c \in DOMAIN calls :
    /\ Returned(c, "updateService")
    /\ calls[c].input.status = Undefined
    /\ calls[c].input.diagnosis # Undefined
    /\ services[calls[c].input.id].status = "completed"
    /\ services[calls[c].input.id].completed_at # NULL
    /\ services[calls[c].input.id].diagnosis = calls[c].input.diagnosis

\* C11: completed_at is never cleared: a service whose completed_at is
\* non-null keeps a non-null completed_at through every later step, whatever
\* status an updateService gives it.
C11_CompletedAtNeverCleared ==
  [][\A id \in 1..Len(services) :
       services[id].completed_at # NULL => services'[id].completed_at # NULL]_vars

\* a service taken out of 'completed' by an updateService and still carrying
\* its completed_at
C11_Witness_ReopenedKeepsCompletedAt ==
  \E c \in DOMAIN calls :
    /\ Returned(c, "updateService")
    /\ calls[c].before.status = "completed"
    /\ calls[c].input.status \in { Some("pending"), Some("in_progress"),
                                  Some("cancelled") }
    /\ services[calls[c].input.id].status # "completed"
    /\ services[calls[c].input.id].completed_at # NULL

\* C12: updateService has no transition guard: given a status on an existing
\* service it succeeds and leaves the service in that status, whatever the
\* status was before.
C12_AnyStatusFromAnyStatus ==
  [][\A c \in DOMAIN calls :
       calls'[c].op = "updateService"
         /\ UpdateService(c, calls'[c].input)
         /\ ServiceExists(calls'[c].input.id)
         /\ calls'[c].input.status # Undefined =>
           /\ calls'[c].pc = "done"
           /\ calls'[c].before.status = services[calls'[c].input.id].status
           /\ services'[calls'[c].input.id].status =
                calls'[c].input.status[1]]_vars

\* a cancelled service set back to 'pending'
C12_Witness_CancelledToPending ==
  \E c \in DOMAIN calls :
    /\ Returned(c, "updateService")
    /\ calls[c].before.status = "cancelled"
    /\ calls[c].input.status = Some("pending")
    /\ services[calls[c].input.id].status = "pending"

\* the sum of paid_amount over the transactions with the given ids
RECURSIVE PaidAmount(_)
PaidAmount(ids) ==
  IF ids = {} THEN 0
  ELSE LET i == CHOOSE i \in ids : TRUE
       IN transactions[i].paid_amount + PaidAmount(ids \ {i})

\* the first instant of the current day, of the next day and of the current
\* month
StartOfToday == (now \div TicksPerDay) * TicksPerDay
StartOfTomorrow == StartOfToday + TicksPerDay
StartOfMonth ==
  IF now \div TicksPerDay >= 2 THEN 2 * TicksPerDay ELSE 0

CreatedToday ==
  { i \in 1..Len(transactions) :
      /\ StartOfToday <= transactions[i].created_at
      /\ transactions[i].created_at < StartOfTomorrow }
CreatedThisMonth ==
  { i \in 1..Len(transactions) : transactions[i].created_at >= StartOfMonth }
PendingServices ==
  { i \in 1..Len(services) : services[i].status = "pending" }
CompletedToday ==
  { i \in 1..Len(services) :
      /\ services[i].status = "completed"
      /\ services[i].completed_at # NULL
      /\ StartOfToday <= services[i].completed_at[1]
      /\ services[i].completed_at[1] < StartOfTomorrow }

\* C13: a getDashboardStats step returns today_revenue = the paid_amount of
\* the transactions created today, this_month_revenue = the paid_amount of
\* those created since the first day of the month, pending_services = the
\* number of 'pending' services, completed_services_today = the number of
\* 'completed' services completed today, total_customers = the number of
\* customers; each is 0 when no row matches.
C13_DashboardStats ==
  [][\A c \in DOMAIN calls :
       GetDashboardStats(c) =>
         LET stats == calls'[c].result IN
         /\ calls'[c].pc = "done"
         /\ stats.today_revenue = PaidAmount(CreatedToday)
         /\ stats.this_month_revenue = PaidAmount(CreatedThisMonth)
         /\ stats.pending_services = Cardinality(PendingServices)
         /\ stats.completed_services_today = Cardinality(CompletedToday)
         /\ stats.total_customers = Cardinality(DOMAIN customers)
         /\ CreatedToday = {} => stats.today_revenue = 0
         /\ CreatedThisMonth = {} => stats.this_month_revenue = 0
         /\ PendingServices = {} => stats.pending_services = 0
         /\ CompletedToday = {} => stats.completed_services_today = 0
         /\ DOMAIN customers = {} => stats.total_customers = 0]_vars

\* a dashboard taken on the second day of a month: a payment of today with
\* less paid than billed, one of the day before in the same month, and a
\* service completed today
C13_Witness_MonthExceedsToday ==
  \E c \in DOMAIN calls :
    /\ Returned(c, "getDashboardStats")
    /\ calls[c].result = getDashboardStats
    /\ calls[c].result.today_revenue > 0
    /\ calls[c].result.this_month_revenue > calls[c].result.today_revenue
    /\ calls[c].result.completed_services_today = 1
    /\ calls[c].result.pending_services = 0
    /\ \E i \in CreatedToday :
         transactions[i].paid_amount < transactions[i].total_amount

\* the handlers that only read
GetByIdHandlers == {"getProduct", "getService", "getTransaction", "getCustomer"}
OrderedListHandlers == {"getStockMovements", "getStockMovementsByProduct"}
ListHandlers == {"getLowStockProducts", "getTransactions", "getUsers",
                 "getTechnicians"}
QueryHandlers ==
  GetByIdHandlers \cup OrderedListHandlers \cup ListHandlers
    \cup {"getStockReport", "getFinancialReport", "getDashboardStats",
          "getCustomerHistory"}

\* the ids of the rows a get-by-id or a list handler is asked for
Asked(op, input) ==
  CASE op = "getProduct" -> { i \in DOMAIN products : i = input }
    [] op = "getService" -> { i \in DOMAIN services : i = input }
    [] op = "getTransaction" -> { i \in DOMAIN transactions : i = input }
    [] op = "getCustomer" -> { i \in DOMAIN customers : i = input }
    [] op = "getStockMovements" -> DOMAIN stock_movements
    [] op = "getStockMovementsByProduct" ->
         { i \in DOMAIN stock_movements :
             stock_movements[i].product_id = input }
    [] op = "getLowStockProducts" ->
         { i \in DOMAIN products :
             products[i].stock_quantity < products[i].minimum_stock }
    [] op = "getTransactions" -> DOMAIN transactions
    [] op = "getUsers" -> DOMAIN users
    [] op = "getTechnicians" ->
         { i \in DOMAIN users : users[i].role = "technician" }

\* C14: a step of a get handler changes no table and does not fail; a
\* get-by-id handler returns null when no row has the id (the row otherwise),
\* and a list handler the empty list when no row matches.
C14_QueriesOnlyRead ==
  [][\A c \in DOMAIN calls :
       calls'[c] # calls[c] /\ calls'[c].op \in QueryHandlers =>
         LET op == calls'[c].op
             input == calls'[c].input
             result == calls'[c].result
         IN /\ <<products, stock_movements, transaction_items, transactions,
                 services, customers, users>>' =
                 <<products, stock_movements, transaction_items, transactions,
                   services, customers, users>>
            /\ calls'[c].pc = "done"
            /\ op \in GetByIdHandlers =>
                 IF Asked(op, input) = {} THEN result = NULL
                 ELSE result # NULL /\ result[1].id = input
            /\ op \in OrderedListHandlers =>
                 /\ Len(result) = Cardinality(Asked(op, input))
                 /\ Asked(op, input) = {} => result = <<>>
            /\ op \in ListHandlers =>
                 /\ { r.id : r \in result } = Asked(op, input)
                 /\ Asked(op, input) = {} => result = {}
            /\ op = "getCustomerHistory" =>
                 /\ (\A i \in DOMAIN services :
                       services[i].customer_id # input)
                      => result.services = <<>>
                 /\ (\A i \in DOMAIN transactions :
                       transactions[i].customer_id # input)
                      => result.transactions = <<>>]_vars

\* getProduct asked for an id no product has, over a filled store: null
C14_Witness_NoSuchProduct ==
  \E c \in DOMAIN calls :
    /\ Returned(c, "getProduct")
    /\ calls[c].input \notin DOMAIN products
    /\ calls[c].result = NULL
    /\ stock_movements # <<>> /\ transactions # <<>> /\ services # <<>>

\* the fields of a service row an updateService may be given, and of a
\* customer row an updateCustomer may be given
ServiceInputFields == {"diagnosis", "repair_actions", "actual_cost",
                       "technician_id"}
CustomerInputFields == {"phone", "email", "address"}

\* C15: updateService and updateCustomer write exactly the fields their input
\* provides, and updated_at (and completed_at under status 'completed'); they
\* leave the other fields of the row, the other rows and the other tables as
\* they were. With an id no row has they fail with 'not found' and write
\* nothing.
C15_PartialUpdate ==
  [][\A c \in DOMAIN calls :
       /\ calls'[c].op = "updateService"
            /\ UpdateService(c, calls'[c].input) =>
            LET input == calls'[c].input IN
            IF input.id \in DOMAIN services
            THEN LET old == services[input.id]
                     new == services'[input.id]
                 IN /\ calls'[c].pc = "done"
                    /\ DOMAIN services' = DOMAIN services
                    /\ \A id \in DOMAIN services \ {input.id} :
                         services'[id] = services[id]
                    /\ \A f \in ServiceInputFields :
                         new[f] = IF input[f] = Undefined
                                  THEN old[f] ELSE input[f]
                    /\ new.status = IF input.status = Undefined
                                    THEN old.status ELSE input.status[1]
                    /\ new.completed_at =
                         IF input.status = Some("completed")
                         THEN Some(now) ELSE old.completed_at
                    /\ new.updated_at = now
                    /\ \A f \in {"customer_id", "estimated_cost", "created_at"} :
                         new[f] = old[f]
                    /\ customers' = customers
            ELSE /\ calls'[c].pc = "failed"
                 /\ calls'[c].error = NotFound("Service not found", input.id)
                 /\ services' = services /\ customers' = customers
       /\ calls'[c].op = "updateCustomer"
            /\ UpdateCustomer(c, calls'[c].input) =>
            LET input == calls'[c].input IN
            IF input.id \in DOMAIN customers
            THEN LET old == customers[input.id]
                     new == customers'[input.id]
                 IN /\ calls'[c].pc = "done"
                    /\ DOMAIN customers' = DOMAIN customers
                    /\ \A id \in DOMAIN customers \ {input.id} :
                         customers'[id] = customers[id]
                    /\ new.name = IF input.name = Undefined
                                  THEN old.name ELSE input.name[1]
                    /\ \A f \in CustomerInputFields :
                         new[f] = IF input[f] = Undefined
                                  THEN old[f] ELSE input[f][1]
                    /\ new.updated_at = now
                    /\ services' = services
            ELSE /\ calls'[c].pc = "failed"
                 /\ calls'[c].error = NotFound("Customer not found", input.id)
                 /\ services' = services /\ customers' = customers]_vars

\* a ticket in progress given only a diagnosis at a later instant: it keeps
\* its status and its actual cost, and the other ticket is as it was made
C15_Witness_OnlyDiagnosisGiven ==
  \E c \in DOMAIN calls :
    /\ Returned(c, "updateService")
    /\ calls[c].input.diagnosis # Undefined
    /\ calls[c].input.status = Undefined
    /\ calls[c].input.actual_cost = Undefined
    /\ calls[c].before.status = "in_progress"
    /\ services[1].status = "in_progress"
    /\ services[1].actual_cost # NULL
    /\ services[1].diagnosis = calls[c].input.diagnosis
    /\ services[1].updated_at = now /\ now > 0
    /\ services[2].updated_at = 0 /\ services[2].diagnosis = NULL
    /\ customers[1].name = "Siti" /\ customers[2].name = "Budi"

\* C16: createTransaction fails with 'not found' and adds no row when no
\* customer has customer_id, and when service_id is non-null and no service
\* has it; otherwise it adds exactly one row, carrying the input's
\* customer_id, type, service_id, total_amount and paid_amount.
C16_TransactionNeedsCustomerAndService ==
  [][\A c \in DOMAIN calls :
       calls'[c].op = "createTransaction"
         /\ CreateTransaction(c, calls'[c].input) =>
           LET input == calls'[c].input IN
           IF \/ input.customer_id \notin DOMAIN customers
              \/ /\ input.service_id # NULL
                 /\ input.service_id[1] \notin DOMAIN services
           THEN /\ calls'[c].pc = "failed"
                /\ calls'[c].error.kind \in {"Customer not found",
                                             "Service not found"}
                /\ transactions' = transactions
           ELSE /\ calls'[c].pc = "done"
                /\ Len(transactions') = Len(transactions) + 1
                /\ SubSeq(transactions', 1, Len(transactions)) = transactions
                /\ LET row == transactions'[Len(transactions')] IN
                   /\ row.customer_id = input.customer_id
                   /\ row.type = input.type
                   /\ row.service_id = input.service_id
                   /\ row.total_amount = input.amounts[1]
                   /\ row.paid_amount = input.amounts[2]]_vars

\* C17: createService for an existing customer adds exactly one service, with
\* status 'pending' and diagnosis, repair_actions, actual_cost, technician_id
\* and completed_at all null; for a customer_id no customer has it fails with
\* 'not found' and adds no service.
C17_NewServiceIsPending ==
  [][\A c \in DOMAIN calls :
       calls'[c].op = "createService"
         /\ CreateService(c, calls'[c].input) =>
           LET input == calls'[c].input IN
           IF input.customer_id \in DOMAIN customers
           THEN /\ calls'[c].pc = "done"
                /\ Len(services') = Len(services) + 1
                /\ SubSeq(services', 1, Len(services)) = services
                /\ LET row == services'[Len(services')] IN
                   /\ row.customer_id = input.customer_id
                   /\ row.status = "pending"
                   /\ \A f \in {"diagnosis", "repair_actions", "actual_cost",
                                 "technician_id", "completed_at"} :
                        row[f] = NULL
           ELSE /\ calls'[c].pc = "failed"
                /\ calls'[c].error = NotFound("Customer not found",
                                              input.customer_id)
                /\ services' = services]_vars

\* a ticket just made, with an estimated cost, pending and otherwise empty
C17_Witness_TicketMade ==
  \E c \in DOMAIN calls :
    /\ Returned(c, "createService")
    /\ calls[c].input.estimated_cost # NULL
    /\ Len(services) = 1
    /\ services[calls[c].row].status = "pending"
    /\ services[calls[c].row].estimated_cost = calls[c].input.estimated_cost
    /\ services[calls[c].row].completed_at = NULL

\* C18: getStockMovementsByProduct(p) returns every movement of product p
\* once and no movement of another product, newest first by created_at: a
\* movement with a later created_at never comes after one with an earlier.
C18_MovementsOfProductNewestFirst ==
  \A c \in DOMAIN calls :
    calls[c].op = "getStockMovementsByProduct" =>
      LET result == calls[c].result
          ofProduct == { i \in DOMAIN stock_movements :
                           stock_movements[i].product_id = calls[c].input }
      IN /\ calls[c].pc = "done"
         /\ { result[k].id : k \in DOMAIN result } = ofProduct
         /\ Len(result) = Cardinality(ofProduct)
         /\ \A k \in DOMAIN result :
              result[k].row = stock_movements[result[k].id]
         /\ \A j, k \in DOMAIN result :
              j < k => result[j].row.created_at >= result[k].row.created_at

\* two movements of a product made at different instants, returned newest
\* first, and one of the other product left out
C18_Witness_TwoOfThree ==
  \E c \in DOMAIN calls :
    /\ Returned(c, "getStockMovementsByProduct")
    /\ Len(calls[c].result) = 2
    /\ calls[c].result[1].id > calls[c].result[2].id
    /\ calls[c].result[1].row.created_at > calls[c].result[2].row.created_at
    /\ \E i \in DOMAIN stock_movements :
         stock_movements[i].product_id # calls[c].input

\* a product row with its stock_quantity and updated_at put aside
OtherColumns(row) == [row EXCEPT !.stock_quantity = 0, !.updated_at = 0]

\* only the stock_quantity and updated_at of product id may differ
OnlyStockOfProductChanges(id) ==
  /\ DOMAIN products' = DOMAIN products
  /\ \A p \in DOMAIN products \ {id} : products'[p] = products[p]
  /\ OtherColumns(products'[id]) = OtherColumns(products[id])

\* one row more in the table, the rows it had unchanged
OneRowAdded(before, after) ==
  Len(after) = Len(before) + 1 /\ SubSeq(after, 1, Len(before)) = before

C20_CreateProductPersists ==
  \A c \in DOMAIN calls :
    Returned(c, "createProduct") =>
      LET R == calls[c].result IN
      /\ firstOrNull(products, R.id) # NULL
      /\ \A f \in {"name", "type", "price", "stock_quantity",
                    "minimum_stock"} :
           firstOrNull(products, R.id)[1].row[f] = R.row[f]
      /\ \A d \in DOMAIN calls :
           /\ Returned(d, "getProduct") /\ calls[d].input = R.id =>
                calls[d].result # NULL
           /\ Returned(d, "createProduct") /\ d # c =>
                calls[d].result.id # R.id

\* C21: in sequential runs, while a product's stock_quantity is 0 or negative
\* every createTransactionItem that reaches its stock check on it fails with
\* Insufficient stock (available = the stock, requested = the quantity) and
\* changes neither the stock nor the item rows; such a stock is raised only
\* by the update of a createStockMovement of type 'in' on that product; and no
\* step of a createTransactionItem takes a non-negative stock below 0.
C21_HardFloorOnSales ==
  [][\A p \in DOMAIN products :
       /\ \A c \in DOMAIN calls :
            calls[c].pc = "ti_select_product"
              /\ calls[c].input.product_id = p
              /\ calls'[c] # calls[c]
              /\ products[p].stock_quantity <= 0 =>
              /\ calls'[c].pc = "failed"
              /\ calls'[c].error =
                   InsufficientStock(products[p].stock_quantity,
                                     calls[c].input.quantity)
              /\ products' = products
              /\ transaction_items' = transaction_items
       /\ products[p].stock_quantity <= 0
            /\ products'[p].stock_quantity > products[p].stock_quantity =>
              \E c \in DOMAIN calls :
                /\ calls[c].op = "createStockMovement"
                /\ calls[c].pc = "sm_update" /\ calls'[c].pc = "done"
                /\ calls[c].input.type = "in"
                /\ calls[c].input.product_id = p
       /\ products[p].stock_quantity >= 0
            /\ (\E c \in DOMAIN calls :
                  /\ calls'[c].op = "createTransactionItem"
                  /\ calls'[c] # calls[c]) =>
              products'[p].stock_quantity >= 0]_vars

\* an 'out' movement took the stock below 0, and the item asked for next was
\* refused with the negative stock as available
C21_Witness_RefusedBelowZero ==
  \E c \in DOMAIN calls :
    /\ Finished(c, "createTransactionItem")
    /\ calls[c].pc = "failed"
    /\ calls[c].error.kind = "Insufficient stock"
    /\ calls[c].error.available < 0
    /\ products[calls[c].input.product_id].stock_quantity < 0
    /\ MovedOut(calls[c].input.product_id) > 0
    /\ transaction_items = <<>>

\* what a movement adds to the stock of its product
Delta(input) == IF input.type = "in" THEN input.quantity ELSE 0 - input.quantity

\* C22: createStockMovement calls on one product commute under every
\* interleaving of their statements: once the calls of a run have returned,
\* no item having been sold, the stock of every product is its created stock
\* plus the deltas of all its movements, and every call that returned has its
\* own movement row; two calls that ran interleaved on a product leave
\* initial + delta1 + delta2.
C22_MovementsCommute ==
  /\ \A c \in DOMAIN calls :
       Returned(c, "createStockMovement") =>
         /\ calls[c].row \in DOMAIN stock_movements
         /\ stock_movements[calls[c].row].product_id = calls[c].input.product_id
         /\ stock_movements[calls[c].row].type = calls[c].input.type
         /\ stock_movements[calls[c].row].quantity = calls[c].input.quantity
  /\ NoCallInProgress /\ transaction_items = <<>> =>
       \A p \in DOMAIN products :
         products[p].stock_quantity =
           created_stock[p] + MovedIn(p) - MovedOut(p)
  /\ \A c, d \in DOMAIN calls :
       c # d
         /\ Returned(c, "createStockMovement")
         /\ Returned(d, "createStockMovement")
         /\ calls[c].input.product_id = calls[d].input.product_id
         /\ NoCallInProgress /\ Len(stock_movements) = 2
         /\ transaction_items = <<>> =>
         /\ calls[c].row # calls[d].row
         /\ products[calls[c].input.product_id].stock_quantity =
              created_stock[calls[c].input.product_id]
                + Delta(calls[c].input) + Delta(calls[d].input)

\* two movements of one product, each started before the other had inserted
\* its row, the one that inserted first updating last
C22_Witness_Interleaved ==
  \E c, d \in DOMAIN calls :
    /\ c # d
    /\ Returned(c, "createStockMovement")
    /\ Returned(d, "createStockMovement")
    /\ calls[c].input.product_id = calls[d].input.product_id
    /\ calls[c].before.movements = 0 /\ calls[d].before.movements = 0
    /\ calls[c].before.stock = calls[d].before.stock
    /\ calls[c].input.type = "in" /\ calls[d].input.type = "out"
    /\ calls[c].input.quantity # calls[d].input.quantity
    /\ products[calls[c].input.product_id].stock_quantity =
         calls[c].before.stock + Delta(calls[c].input) + Delta(calls[d].input)

\* C23: completed_at is set exactly on a transition into 'completed': an
\* updateService changes the completed_at of a service only when it takes the
\* service from a status other than 'completed' to 'completed'; given status
\* 'completed' for a service that is already completed, it leaves completed_at
\* at its previous value.
C23_CompletedAtOnlyOnTransition ==
  [][\A c \in DOMAIN calls :
       calls'[c].op = "updateService"
         /\ UpdateService(c, calls'[c].input)
         /\ ServiceExists(calls'[c].input.id) =>
           LET input == calls'[c].input
               old == services[input.id]
               new == services'[input.id]
           IN /\ new.completed_at # old.completed_at =>
                   old.status # "completed" /\ new.status = "completed"
              /\ input.status = Some("completed") /\ old.status = "completed" =>
                   new.completed_at = old.completed_at]_vars

\* C24: the three low-stock views agree in every state: getLowStockProducts
\* returns a product if and only if the product's getStockReport row has
\* is_low_stock = true, and the low_stock_items of getDashboardStats is the
\* number of products getLowStockProducts returns.
C24_LowStockViewsAgree ==
  /\ \A p \in DOMAIN products :
       (\E r \in getLowStockProducts : r.id = p)
         <=> (\E k \in DOMAIN getStockReport :
                /\ getStockReport[k].product_id = p
                /\ getStockReport[k].is_low_stock)
  /\ getDashboardStats.low_stock_items = Cardinality(getLowStockProducts)

\* the rows a table had are all still there, each as it was
RowsKept(before, after) ==
  \A i \in DOMAIN before : i \in DOMAIN after /\ after[i] = before[i]

\* C25: ledger rows are append-only: no step of any handler changes or removes
\* a stock_movements or transaction_items row (its product_id, type and
\* quantity stay what they were), and no step lowers the number of rows of any
\* table.
C25_LedgerAppendOnly ==
  [][/\ RowsKept(stock_movements, stock_movements')
     /\ RowsKept(transaction_items, transaction_items')
     /\ \A i \in DOMAIN stock_movements :
          /\ stock_movements'[i].product_id = stock_movements[i].product_id
          /\ stock_movements'[i].type = stock_movements[i].type
          /\ stock_movements'[i].quantity = stock_movements[i].quantity
     /\ Len(stock_movements') >= Len(stock_movements)
     /\ Len(transaction_items') >= Len(transaction_items)
     /\ Len(transactions') >= Len(transactions)
     /\ Len(services') >= Len(services)
     /\ DOMAIN products \subseteq DOMAIN products'
     /\ DOMAIN customers \subseteq DOMAIN customers'
     /\ DOMAIN users \subseteq DOMAIN users']_vars

\* two movements of the same product and type, each with its own row, the
\* first still as it was inserted
C25_Witness_TwoRowsOfAKind ==
  /\ NoCallInProgress
  /\ Len(stock_movements) = 2
  /\ stock_movements[1].product_id = stock_movements[2].product_id
  /\ stock_movements[1].type = stock_movements[2].type
  /\ stock_movements[1].quantity = 1
  /\ \E c \in DOMAIN calls : Returned(c, "createStockMovement")

\* C26: created_by is a valid user reference: the created_by of every stock
\* movement made by createStockMovement and of every transaction made by
\* createTransaction is the id of an existing user, and it is the id of the
\* calling user when the request context supplies one.
C26_CreatedByIsTheCaller ==
  /\ \A i \in DOMAIN stock_movements :
       stock_movements[i].created_by \in DOMAIN users
  /\ \A i \in DOMAIN transactions :
       transactions[i].created_by \in DOMAIN users
  /\ \A c \in DOMAIN calls :
       /\ Returned(c, "createStockMovement")
            /\ calls[c].input.ctx_user # Undefined =>
              stock_movements[calls[c].row].created_by =
                calls[c].input.ctx_user[1]
       /\ Returned(c, "createTransaction")
            /\ calls[c].input.ctx_user # Undefined =>
              transactions[calls[c].row].created_by =
                calls[c].input.ctx_user[1]

\* C27: in every state reached through createTransaction, the
\* this_month_revenue of getDashboardStats is at least its today_revenue,
\* in the result of every call and for the store as it is: every transaction
\* of today was created on or after the first day of the month, and no
\* paid_amount is negative.
C27_MonthRevenueCoversToday ==
  /\ \A i \in DOMAIN transactions : transactions[i].paid_amount >= 0
  /\ CreatedToday \subseteq CreatedThisMonth
  /\ getDashboardStats.this_month_revenue >= getDashboardStats.today_revenue
  /\ \A c \in DOMAIN calls :
       Returned(c, "getDashboardStats") =>
         calls[c].result.this_month_revenue >= calls[c].result.today_revenue

\* a dashboard taken on the first day of a month, after a payment of today
\* and one of the month before: the month's revenue is today's
C27_Witness_FirstDayOfMonth ==
  \E c \in DOMAIN calls :
    /\ Returned(c, "getDashboardStats")
    /\ calls[c].result = getDashboardStats
    /\ StartOfToday = StartOfMonth /\ StartOfMonth > 0
    /\ calls[c].result.today_revenue > 0
    /\ calls[c].result.this_month_revenue = calls[c].result.today_revenue
    /\ \E i \in DOMAIN transactions :
         /\ transactions[i].created_at < StartOfMonth
         /\ transactions[i].paid_amount > 0

\* C28: when createTransactionItem calls are the only writers of a product
\* that starts with a stock of 0 or more, its stock_quantity is 0 or more in
\* every state under every interleaving: a call past its check read at least
\* its quantity and writes the stock it read minus its quantity, so an
\* oversell is a lost decrement, never a negative stock.
C28_ItemsNeverGoNegative ==
  /\ \A p \in DOMAIN products : products[p].stock_quantity >= 0
  /\ \A c \in DOMAIN calls :
       calls[c].op = "createTransactionItem"
         /\ calls[c].pc \in {"ti_insert", "ti_update", "done"} =>
           /\ calls[c].read >= calls[c].input.quantity
           /\ calls[c].read - calls[c].input.quantity >= 0

\* more sold than the product ever had, a decrement lost, the stock at 0
C28_Witness_LostDecrement ==
  /\ NoCallInProgress
  /\ \E p \in DOMAIN products :
       /\ Sold(p) > created_stock[p]
       /\ products[p].stock_quantity = 0
       /\ products[p].stock_quantity > created_stock[p] - Sold(p)
       /\ \A c \in DOMAIN calls : Returned(c, "createTransactionItem")

\* C29: referential integrity of the rows the handlers insert: every stock
\* movement names an existing product, every transaction item an existing
\* transaction and an existing product, every service an existing customer,
\* and every transaction an existing customer and, when its service_id is
\* non-null, an existing service.
C29_ReferentialIntegrity ==
  /\ \A i \in DOMAIN stock_movements :
       stock_movements[i].product_id \in DOMAIN products
  /\ \A i \in DOMAIN transaction_items :
       /\ transaction_items[i].transaction_id \in DOMAIN transactions
       /\ transaction_items[i].product_id \in DOMAIN products
  /\ \A i \in DOMAIN services :
       services[i].customer_id \in DOMAIN customers
  /\ \A i \in DOMAIN transactions :
       /\ transactions[i].customer_id \in DOMAIN customers
       /\ transactions[i].service_id # NULL =>
            transactions[i].service_id[1] \in DOMAIN services

\* C30: for services made by createService and changed only by updateService:
\* in every state a service with status 'completed' has a non-null
\* completed_at, and a completed_at becomes non-null only in the step of an
\* updateService on that service that provides status 'completed' (a service
\* is made with completed_at null), so a non-null completed_at always has
\* such a call before it.
C30_CompletedAtHasACompletion ==
  /\ [](\A id \in DOMAIN services :
          services[id].status = "completed" =>
            services[id].completed_at # NULL)
  /\ [][\A id \in DOMAIN services' :
          (/\ services'[id].completed_at # NULL
           /\ (id \in DOMAIN services => services[id].completed_at = NULL))
          => \E c \in DOMAIN calls :
               /\ id \in DOMAIN services
               /\ calls'[c].op = "updateService" /\ calls'[c].pc = "done"
               /\ UpdateService(c, calls'[c].input)
               /\ calls'[c].input.id = id
               /\ calls'[c].input.status = Some("completed")]_vars

\* a ticket completed at an instant after it was made, by an updateService
\* that gave status 'completed' and a diagnosis
C30_Witness_CompletedLater ==
  \E c \in DOMAIN calls :
    /\ Returned(c, "updateService")
    /\ calls[c].input.status = Some("completed")
    /\ calls[c].input.diagnosis # Undefined
    /\ calls[c].before.status = "pending"
    /\ services[calls[c].input.id].status = "completed"
    /\ services[calls[c].input.id].completed_at # NULL
    /\ services[calls[c].input.id].completed_at[1]
         > services[calls[c].input.id].created_at

====
